---- MODULE Spec2Model ----
(***************************************************************************)
(* State-machine model of the browser client of the multiplayer walking    *)
(* demo: GameEngine (game state store, reconciler, server update gate),    *)
(* SceneManager (render synchronizer) and InputManager (input aggregator), *)
(* together with the backend connection objects they talk to.              *)
(*                                                                         *)
(* GameEngine.ts holds two iterations of the engine.  The variable design  *)
(* selects one: "position" is the client-simulated engine that reports     *)
(* position/rotation (lines 1-655), "input" is the engine that reports the *)
(* raw input vector and takes position/animation from the backend          *)
(* (lines 657-1225).                                                       *)
(*                                                                         *)
(* Units.  Time is counted in thirds of a millisecond, so that             *)
(* UPDATE_INTERVAL = 1000/30 ms is the integer 100.  Lengths are counted   *)
(* in thousandths of a world unit, so that MOVEMENT_SPEED = 3.0 units/s is *)
(* one length unit per time unit and POSITION_THRESHOLD = 0.01 is 10.      *)
(* Angles are counted in 1e-4 rad, so that MOUSE_SENSITIVITY = 0.002 rad   *)
(* per pixel is 20 and ROTATION_THRESHOLD = 0.01 rad is 100.               *)
(***************************************************************************)
EXTENDS Integers, Sequences, FiniteSets, TLC

VARIABLES
    design,   \* which iteration of GameEngine runs: "position" or "input"
    app,      \* the App component's state
    ge,       \* the GameEngine's fields
    sm,       \* the SceneManager's fields
    im,       \* the InputManager's fields
    net,      \* the DbConnection objects: subscription, message queue, cache, row callbacks
    dbRows,   \* the backend's Player table
    clock,    \* performance.now()
    obs,      \* what the last handler did: folds, sync passes, crossfades, outbound calls
    hist      \* what the backend's reducers received: the last report that succeeded

vars == <<design, app, ge, sm, im, net, dbRows, clock, obs, hist>>

----------------------------------------------------------------------------
(* Bounds of the model *)

MaxConn == 3      \* DbConnection objects ever passed to connect()
MaxWire == 2      \* messages in flight on one connection

(* Program constants, in the units above *)

MOVEMENT_SPEED == 1
UPDATE_INTERVAL == 100
POSITION_THRESHOLD == 10
ROTATION_THRESHOLD == 100
MOUSE_SENSITIVITY == 20
PITCH_LIMIT_LOW == 12000
PITCH_LIMIT_HIGH == 30416
PI == 31416
HALF_PI == 15708

Null == [null |-> TRUE]

ConnIds == 1..MaxConn

----------------------------------------------------------------------------
(* Identities.  The backend names a player by an Identity value; the client *)
(* keys everything by identity.toHexString().                              *)

Identities == {10, 11, 12}

HexDigit(n) == <<"0","1","2","3","4","5","6","7","8","9","a","b","c","d","e","f">>[n + 1]

toHexString(i) == HexDigit(i \div 16) \o HexDigit(i % 16)

HexIds == {toHexString(i) : i \in Identities}

\* identities a session of this client may be given by the backend
LocalIdentities == {10, 11}

----------------------------------------------------------------------------
(* Player rows of the backend (moduleBindings.Player) *)

Payloads ==
    { [position |-> [x |-> 0, y |-> 0, z |-> 0], rotationYaw |-> 0,
       animationState |-> "idle", hexColor |-> "none"],
      [position |-> [x |-> 5000, y |-> 0, z |-> 2000], rotationYaw |-> 15700,
       animationState |-> "walkingForwards", hexColor |-> "#ff0000"] }

\* rows that differ in the animation state only
AnimationPayloads ==
    { [position |-> [x |-> 0, y |-> 0, z |-> 0], rotationYaw |-> 0,
       animationState |-> a, hexColor |-> "none"] :
      a \in {"idle", "walkingForwards", "walkingBackwards"} }

\* rows of a player standing away from the origin
PlacedPayloads ==
    { [position |-> [x |-> 5000, y |-> 0, z |-> 2000], rotationYaw |-> 15700,
       animationState |-> a, hexColor |-> "none"] :
      a \in {"idle", "walkingForwards"} }

Row(i, p) == [identity |-> i, position |-> p.position, rotationYaw |-> p.rotationYaw,
              animationState |-> p.animationState, hexColor |-> p.hexColor]

RowId(row) == toHexString(row.identity)

\* a table or a map is a function from a finite set of keys
EmptyMap == [k \in {} |-> Null]

Put(m, k, v) == [j \in DOMAIN m \cup {k} |-> IF j = k THEN v ELSE m[j]]

Remove(m, k) == [j \in DOMAIN m \ {k} |-> m[j]]

Has(m, k) == k \in DOMAIN m

----------------------------------------------------------------------------
(* Remote Player Reconciler: updateRemotePlayersMap.  The function copies   *)
(* the map it is given and returns the copy, so the result is never the    *)
(* reference it was passed: sameRef records that.                          *)

FoldInitial(rows, localId) ==
    LET kept == {i \in DOMAIN rows : toHexString(i) # localId}
    IN  [h \in {toHexString(i) : i \in kept} |->
            rows[CHOOSE i \in kept : toHexString(i) = h]]

\* a fold that keys the entry by a differently formatted identity string
FoldUpsert_OtherKey(currentPlayers, row, localId) ==
    IF RowId(row) # localId THEN Put(currentPlayers, "0x" \o RowId(row), row)
    ELSE currentPlayers

FoldUpsert(currentPlayers, row, localId) ==
    IF RowId(row) # localId THEN Put(currentPlayers, RowId(row), row) ELSE currentPlayers

FoldDelete(currentPlayers, row, localId) ==
    IF RowId(row) # localId THEN Remove(currentPlayers, RowId(row)) ELSE currentPlayers

updateRemotePlayersMap(currentPlayers, event) ==
    [ players |->
        CASE event.type = "initial" -> FoldInitial(event.data, event.localId)
          [] event.type \in {"insert", "update"} ->
                FoldUpsert(currentPlayers, event.data, event.localId)
          [] event.type = "delete" -> FoldDelete(currentPlayers, event.data, event.localId),
      sameRef |-> FALSE ]

----------------------------------------------------------------------------
(* What a handler did, for the properties to read.  Reset by every action. *)

CompKeys == HexIds \cup {"local"}

NoObs == [ kind     |-> "none",                  \* the handler that ran
           id       |-> "",                      \* the row identity it was given
           folds    |-> <<>>,                    \* calls of updateRemotePlayersMap
           passes   |-> 0,                       \* calls of updateRemotePlayers
           xf       |-> [k \in CompKeys |-> 0],  \* crossfades started, per component
           disposed |-> {},                      \* components disposed
           calls    |-> <<>>,                    \* reducer calls attempted
           emitted  |-> 0,                       \* calls of the InputManager's callback
           rotated  |-> FALSE,                   \* a rotation update was given to
                                                 \* handleInputUpdate
           dropped  |-> FALSE,                   \* pending mouse movement was thrown away
           states   |-> 0,                       \* snapshots the input handler and the
                                                 \* simulation step assigned to this.state
           threw    |-> FALSE,                   \* updateDebugInfo threw a TypeError
           rendered |-> FALSE ]                  \* sceneManager.render() ran

----------------------------------------------------------------------------
(* SceneManager: the render synchronizer *)

ANIMATION_ROT_EPSILON == 10

NoAssets == [stadium |-> FALSE, template |-> FALSE, idle |-> FALSE, walk |-> FALSE]

\* a readiness test that also waits for the stadium
areRenderAssetsReady_All(s) ==
    s.characterModelTemplate /\ s.idleClips /\ s.walkClips /\ s.assetsLoaded.stadium

areRenderAssetsReady(s) ==
    s.characterModelTemplate /\ s.idleClips /\ s.walkClips

AnimationNameOf(animationState) == IF animationState = "idle" THEN "idle" ELSE "walk"

TimeScaleOf(animationState) == IF animationState = "walkingBackwards" THEN -1 ELSE 1

\* createPlayerRenderComponent: idle playing at weight 1, walk at weight 0
createPlayerRenderComponent(position, rotationY) ==
    [ position         |-> position,
      rotationY        |-> rotationY,
      actions          |-> [idle |-> "in", walk |-> "out"],
      timeScale        |-> 1,
      currentAnimation |-> "idle",
      lastPositionSq   |-> [x |-> position.x, y |-> position.z] ]

\* a switch that restarts the target action even when the bucket did not change
switchAnimation_Always(rc, from, to) ==
    [rc |-> [rc EXCEPT !.actions = [@ EXCEPT ![from] = "out", ![to] = "in"]], xf |-> 1]

\* switchAnimation: fade the losing action out, reset and fade the winning one in.
\* Returns the component and the number of crossfades started (0 or 1).
switchAnimation(rc, from, to) ==
    IF from = to
    THEN [rc |-> rc, xf |-> 0]
    ELSE [rc |-> [rc EXCEPT !.actions = [@ EXCEPT ![from] = "out", ![to] = "in"]],
          xf |-> 1]

\* updateLocalPlayer, the branch that creates the component (lines 484-508)
CreateLocalComponent(playerData) ==
    LET c == createPlayerRenderComponent(playerData.position, playerData.rotationY + PI)
    IN  [c EXCEPT !.currentAnimation = AnimationNameOf(playerData.animationState),
                  !.timeScale = TimeScaleOf(playerData.animationState)]

\* updateLocalPlayer, the branch that updates the component (lines 511-549)
UpdateLocalComponent(rc, playerData) ==
    LET animationName == AnimationNameOf(playerData.animationState)
        sw == switchAnimation(rc, rc.currentAnimation, animationName)
    IN  [rc |-> [sw.rc EXCEPT !.position = playerData.position,
                              !.rotationY = playerData.rotationY + PI,
                              !.currentAnimation = animationName,
                              !.timeScale = TimeScaleOf(playerData.animationState)],
         xf |-> sw.xf]

\* a test that creates a local component in every pass
NeedsLocalComponent_Always(s) == areRenderAssetsReady(s)

\* the test of line 484
NeedsLocalComponent(s) == s.localPlayerRenderComponent = Null /\ areRenderAssetsReady(s)

\* b is a bundle [sm, obs]
updateLocalPlayer(b, playerData) ==
    IF playerData = Null
    THEN IF b.sm.localPlayerRenderComponent # Null
         THEN [b EXCEPT !.sm.localPlayerRenderComponent = Null,
                        !.sm.sceneLocalModels = @ - 1,
                        !.obs.disposed = @ \cup {"local"}]
         ELSE b
    ELSE LET creates == NeedsLocalComponent(b.sm)
             created == IF creates
                        THEN CreateLocalComponent(playerData)
                        ELSE b.sm.localPlayerRenderComponent
         IN  IF created = Null
             THEN b
             ELSE LET u == UpdateLocalComponent(created, playerData)
                  IN  [b EXCEPT !.sm.localPlayerRenderComponent = u.rc,
                                !.sm.sceneLocalModels = IF creates THEN @ + 1 ELSE @,
                                !.obs.xf["local"] = @ + u.xf]

\* updateRemotePlayers, the branch that creates a component (lines 566-595)
CreateRemoteComponent(playerData) ==
    LET c  == createPlayerRenderComponent(
                  [x |-> playerData.position.x, y |-> 0, z |-> playerData.position.y],
                  playerData.rotationYaw)
        sw == switchAnimation(c, "idle", AnimationNameOf(playerData.animationState))
    IN  [rc |-> [sw.rc EXCEPT !.currentAnimation = AnimationNameOf(playerData.animationState),
                              !.timeScale = TimeScaleOf(playerData.animationState)],
         xf |-> sw.xf]

Abs(n) == IF n < 0 THEN -n ELSE n

\* updateRemotePlayers, the branch that updates a component (lines 598-635)
UpdateRemoteComponent(rc, playerData) ==
    LET desiredClientAnim == AnimationNameOf(playerData.animationState)
        sw == switchAnimation(rc, rc.currentAnimation, desiredClientAnim)
    IN  [rc |-> [sw.rc EXCEPT
                    !.position = playerData.position,
                    !.rotationY = IF Abs(@ - playerData.rotationYaw) > ANIMATION_ROT_EPSILON
                                  THEN playerData.rotationYaw ELSE @,
                    !.currentAnimation = desiredClientAnim,
                    !.timeScale = IF desiredClientAnim = "walk"
                                  THEN TimeScaleOf(playerData.animationState) ELSE 1,
                    !.lastPositionSq = [x |-> playerData.position.x,
                                        y |-> playerData.position.y]],
         xf |-> sw.xf]

\* one player of the forEach of updateRemotePlayers
SyncRemoteComponent(s, playerId, playerData) ==
    IF Has(s.playerRenderComponents, playerId)
    THEN UpdateRemoteComponent(s.playerRenderComponents[playerId], playerData)
    ELSE CreateRemoteComponent(playerData)

\* a second loop that disposes nothing
RemovedComponents_None(old, players) == {}

\* the components the second loop of updateRemotePlayers disposes (lines 639-645)
RemovedComponents(old, players) == DOMAIN old \ DOMAIN players

updateRemotePlayers(b, players) ==
    LET old     == b.sm.playerRenderComponents
        synced  == {k \in DOMAIN players : Has(old, k) \/ areRenderAssetsReady(b.sm)}
        removed == RemovedComponents(old, players)
        left    == (DOMAIN old \ DOMAIN players) \ removed
    IN  [b EXCEPT
            !.sm.playerRenderComponents =
                [k \in synced \cup left |->
                    IF k \in synced THEN SyncRemoteComponent(b.sm, k, players[k]).rc
                    ELSE old[k]],
            !.obs.xf = [k \in CompKeys |->
                IF k \in synced THEN @[k] + SyncRemoteComponent(b.sm, k, players[k]).xf
                ELSE @[k]],
            !.obs.disposed = @ \cup removed,
            !.obs.passes = @ + 1]

----------------------------------------------------------------------------
(* GameEngine: state store.  w is a bundle [ge, sm, net, obs] that the     *)
(* handlers below transform, one after the other within one callback.      *)

initialInputState ==
    [forward |-> FALSE, backward |-> FALSE, left |-> FALSE, right |-> FALSE,
     isPointerLocked |-> FALSE]

\* the animation state the local player shows: the "input" engine stores it, the
\* "position" engine derives it (lines 385-390)
LocalAnimationState(player) ==
    IF design = "input" THEN player.animationState
    ELSE IF player.currentAnimationName = "idle" THEN "idle"
    ELSE IF player.isMovingBackwards THEN "walkingBackwards" ELSE "walkingForwards"

createLocalPlayerRenderData(player) ==
    [ identity       |-> player.identity,
      position       |-> player.position,
      rotationY      |-> player.rotationY,
      pitch          |-> player.pitch,
      animationState |-> LocalAnimationState(player),
      hexColor       |-> IF player.hexColor = "none" THEN "#3498db" ELSE player.hexColor ]

updateSceneFromState(w) ==
    LET localRenderData == IF w.ge.localPlayer = Null THEN Null
                           ELSE createLocalPlayerRenderData(w.ge.localPlayer)
        b1 == updateLocalPlayer([sm |-> w.sm, obs |-> w.obs], localRenderData)
        b2 == updateRemotePlayers(b1, w.ge.players)
    IN  [w EXCEPT !.sm = b2.sm, !.obs = b2.obs]

\* records a call of updateRemotePlayersMap in obs and returns what it returned
FoldObs(w, event, r) ==
    [ type    |-> event.type,
      id      |-> IF event.type = "initial" THEN "" ELSE RowId(event.data),
      localId |-> event.localId,
      present |-> event.type # "initial" /\ Has(w.ge.players, RowId(event.data)),
      sameRef |-> r.sameRef ]

\* this.state = { ...this.state, players: next } followed by updateSceneFromState,
\* taken when the fold did not return the map it was given
ApplyFold(w, event) ==
    LET r  == updateRemotePlayersMap(w.ge.players, event)
        w1 == [w EXCEPT !.obs.folds = Append(@, FoldObs(w, event, r))]
    IN  IF ~r.sameRef
        THEN updateSceneFromState([w1 EXCEPT !.ge.players = r.players])
        ELSE w1

\* a disconnect that resets the state and leaves the scene as it is
disconnect_NoSceneUpdate(w) ==
    [w EXCEPT !.ge.connection = 0, !.ge.dbCallbacks = 0,
              !.ge.localPlayer = Null, !.ge.players = EmptyMap]

disconnect(w) ==
    LET c  == w.ge.connection
        w1 == IF c # 0 /\ w.ge.dbCallbacks # 0
              THEN [w EXCEPT !.net[c].reg = @ \ {w.ge.dbCallbacks},
                             !.ge.dbCallbacks = 0]
              ELSE w
    IN  updateSceneFromState([w1 EXCEPT !.ge.connection = 0,
                                        !.ge.localPlayer = Null,
                                        !.ge.players = EmptyMap])

\* localPlayerIdentity captured by the callbacks that setupDbSubscription call k made
ClosureIdentity(w, k) == w.net[k].ident

\* callbacks that never take a session for over
StaleSession_Never(w, k) == FALSE

\* the test the callbacks of setupDbSubscription call k begin with (lines 543, 550, 584)
StaleSession(w, k) ==
    \/ w.ge.connection = 0
    \/ w.ge.localPlayer = Null
    \/ w.ge.localPlayer.identity # ClosureIdentity(w, k)

onInsert(w, k, player) ==
    IF w.ge.connection = 0 THEN w
    ELSE LET playerId == RowId(player)
             w1 == IF playerId = ClosureIdentity(w, k) /\ w.ge.localPlayer # Null
                   THEN updateSceneFromState(
                            [w EXCEPT !.ge.localPlayer.hexColor = player.hexColor])
                   ELSE w
         IN  ApplyFold(w1, [type |-> "insert", data |-> player,
                            localId |-> ClosureIdentity(w, k)])

onDelete(w, k, player) ==
    IF StaleSession(w, k) THEN w
    ELSE ApplyFold(w, [type |-> "delete", data |-> player,
                       localId |-> ClosureIdentity(w, k)])

\* the local-player branch of onUpdate: lines 554-565 ("position"), 1116-1127 ("input")
UpdateLocalFromRow(w, oldPlayer, newPlayer) ==
    IF design = "position"
    THEN IF newPlayer.hexColor # oldPlayer.hexColor
         THEN updateSceneFromState(
                  [w EXCEPT !.ge.localPlayer.hexColor = newPlayer.hexColor])
         ELSE w
    ELSE updateSceneFromState(
             [w EXCEPT !.ge.localPlayer.hexColor = newPlayer.hexColor,
                       !.ge.localPlayer.position = newPlayer.position,
                       !.ge.localPlayer.animationState = newPlayer.animationState])

onUpdate(w, k, oldPlayer, newPlayer) ==
    IF StaleSession(w, k) THEN w
    ELSE LET playerId == RowId(newPlayer)
             w1 == IF playerId = ClosureIdentity(w, k)
                   THEN UpdateLocalFromRow(w, oldPlayer, newPlayer)
                   ELSE w
             ev == [type |-> "update", data |-> newPlayer,
                    localId |-> ClosureIdentity(w, k)]
             r  == updateRemotePlayersMap(w1.ge.players, ev)
         IN  IF ~r.sameRef THEN ApplyFold(w1, ev)
             ELSE IF Has(w1.ge.players, playerId)
                  THEN updateSceneFromState(
                           [w1 EXCEPT !.obs.folds = Append(@, FoldObs(w1, ev, r))])
                  ELSE [w1 EXCEPT !.obs.folds = Append(@, FoldObs(w1, ev, r))]

\* the onApplied callback of subscription k; ctx.db.player is connection k's cache
onApplied(w, k) ==
    IF StaleSession(w, k) THEN w
    ELSE LET localId == ClosureIdentity(w, k)
             initialPlayers == w.net[k].cache
             mine == {i \in DOMAIN initialPlayers : toHexString(i) = localId}
             w1 == IF mine # {}
                   THEN [w EXCEPT !.ge.localPlayer.hexColor =
                                      initialPlayers[CHOOSE i \in mine : TRUE].hexColor]
                   ELSE w
             ev == [type |-> "initial", data |-> initialPlayers, localId |-> localId]
             r  == updateRemotePlayersMap(w1.ge.players, ev)
             w2 == [w1 EXCEPT !.ge.players = r.players,
                              !.obs.folds = Append(@, FoldObs(w1, ev, r)),
                              !.net[w.ge.connection].reg = @ \cup {k}]
         IN  updateSceneFromState(w2)

----------------------------------------------------------------------------
(* Asset loading: SceneManager.loadAssets and the callback the engine's     *)
(* constructor passes to it                                                 *)

Assets == {"stadium", "template", "idle", "walk"}

\* the callback given to loadAssets by the GameEngine constructor
onAssetsLoaded(w) ==
    IF w.ge.localPlayer # Null THEN updateSceneFromState(w) ELSE w

checkAllAssetsLoaded(w) ==
    IF w.sm.isDisposed THEN w
    ELSE IF \A a \in Assets : w.sm.assetsLoaded[a] THEN onAssetsLoaded(w)
    ELSE w

\* the completion callback of the loader for asset a
loadAssets(w, a) ==
    IF w.sm.isDisposed THEN w
    ELSE checkAllAssetsLoaded(
             [w EXCEPT !.sm.assetsLoaded[a] = TRUE,
                       !.sm.characterModelTemplate = @ \/ a = "template",
                       !.sm.idleClips = @ \/ a = "idle",
                       !.sm.walkClips = @ \/ a = "walk"])

----------------------------------------------------------------------------
(* GameEngine.connect and setupDbSubscription *)

Origin == [x |-> 0, y |-> 0, z |-> 0]

InitialLocalPlayer(identity) ==
    [ identity             |-> identity,
      position             |-> Origin,
      rotationY            |-> 0,
      pitch                |-> HALF_PI,
      input                |-> initialInputState,
      isMoving             |-> FALSE,
      currentAnimationName |-> "idle",
      isMovingBackwards    |-> FALSE,
      animationState       |-> "idle",
      hexColor             |-> "none",
      fresh                |-> FALSE ]

\* a reducer call made at time at; ok is FALSE when the call throws
Call(name, args, ok, at) == [name |-> name, args |-> args, ok |-> ok, at |-> at]

\* the try block of connect that reports the initial state (lines 455-474 and
\* 1024-1036); thrown names the reducer call that throws: 0 none, 1 the first, 2 the second
SendInitialState(w, thrown, now) ==
    LET rot == 0 + PI
        pos == Call("updatePlayerPosition", [x |-> 0, y |-> 0, rotation |-> rot],
                    thrown # 1, now)
        ani == Call("updatePlayerAnimationState", [state |-> "idle"], thrown # 2, now)
        inp == Call("updatePlayerInput", [input |-> initialInputState, rotation |-> rot],
                    thrown # 1, now)
    IN  IF design = "position"
        THEN IF thrown = 1
             THEN [w EXCEPT !.obs.calls = @ \o <<pos>>]
             ELSE IF thrown = 2
             THEN [w EXCEPT !.obs.calls = @ \o <<pos, ani>>,
                            !.ge.lastSentPosition = [x |-> 0, y |-> 0, rotation |-> rot]]
             ELSE [w EXCEPT !.obs.calls = @ \o <<pos, ani>>,
                            !.ge.lastSentPosition = [x |-> 0, y |-> 0, rotation |-> rot],
                            !.ge.lastSentAnimationState = "idle",
                            !.ge.lastUpdateTime = now]
        ELSE IF thrown = 1
             THEN [w EXCEPT !.obs.calls = @ \o <<inp>>]
             ELSE [w EXCEPT !.obs.calls = @ \o <<inp>>,
                            !.ge.lastSentInput = [input |-> initialInputState,
                                                  rotation |-> rot],
                            !.ge.lastUpdateTime = now]

\* subscriptionBuilder()...subscribeToAllTables() on connection c: the backend
\* answers with the rows it holds at that moment
Subscribe(w, c, identity, rows) ==
    [w EXCEPT !.net[c] = [ ident  |-> identity,
                           status |-> "pending",
                           wire   |-> << [type |-> "applied", rows |-> rows] >>,
                           cache  |-> EmptyMap,
                           reg    |-> {} ]]

setupDbSubscription(w, identity, rows) ==
    IF w.ge.connection = 0 THEN w
    ELSE Subscribe([w EXCEPT !.ge.dbCallbacks = w.ge.connection],
                   w.ge.connection, identity, rows)

connect(w, c, identity, thrown, now, rows) ==
    LET w1 == disconnect(w)
        w2 == [w1 EXCEPT !.ge.connection = c,
                         !.ge.localPlayer = InitialLocalPlayer(identity),
                         !.ge.players = EmptyMap]
        w3 == SendInitialState(w2, thrown, now)
        w4 == setupDbSubscription(w3, identity, rows)
    IN  updateSceneFromState(w4)

----------------------------------------------------------------------------
(* The local player: input, rotation and the per-frame simulation           *)

Keys == {"forward", "backward", "left", "right"}

Max(a, b) == IF a >= b THEN a ELSE b

Min(a, b) == IF a <= b THEN a ELSE b

\* n / d rounded to the nearest integer
Round(n, d) == IF n >= 0 THEN (2 * n + d) \div (2 * d) ELSE -((2 * (-n) + d) \div (2 * d))

\* sine and cosine of t (1e-4 rad), scaled by 1e4; the Taylor polynomials are exact to
\* the scale for the yaws the mouse can reach here (|t| <= MaxYaw)
Sin(t) == t - Round(t * t * t, 600000000)

Cos(t) == 10000 - Round(t * t, 20000)

(* Object identity.  The functions below return either the object they    *)
(* were given or a newly allocated one, and their callers compare the      *)
(* result with !==.  A newly allocated player state carries fresh = TRUE   *)
(* until the engine has stored it; the stored one carries FALSE.           *)

\* a rotation that does not clamp the pitch
updatePlayerRotation_NoClamp(player, deltaX, deltaY) ==
    IF deltaX = 0 /\ deltaY = 0 THEN player
    ELSE [player EXCEPT !.rotationY = @ - deltaX * MOUSE_SENSITIVITY,
                        !.pitch = @ + deltaY * MOUSE_SENSITIVITY,
                        !.fresh = TRUE]

\* a rotation that allocates whatever the deltas are
updatePlayerRotation_AlwaysNew(player, deltaX, deltaY) ==
    [player EXCEPT !.rotationY = @ - deltaX * MOUSE_SENSITIVITY,
                   !.pitch = Max(PITCH_LIMIT_LOW,
                                 Min(PITCH_LIMIT_HIGH, @ + deltaY * MOUSE_SENSITIVITY)),
                   !.fresh = TRUE]

updatePlayerRotation(player, deltaX, deltaY) ==
    LET newRotationY == player.rotationY - deltaX * MOUSE_SENSITIVITY
        newPitch     == Max(PITCH_LIMIT_LOW,
                            Min(PITCH_LIMIT_HIGH, player.pitch + deltaY * MOUSE_SENSITIVITY))
    IN  IF newRotationY = player.rotationY /\ newPitch = player.pitch
        THEN player
        ELSE [player EXCEPT !.rotationY = newRotationY, !.pitch = newPitch,
                            !.fresh = TRUE]

\* moveDirection in the player's own frame: a forward + b right (lines 58-62)
MoveDirection(input) ==
    [a |-> (IF input.forward THEN 1 ELSE 0) - (IF input.backward THEN 1 ELSE 0),
     b |-> (IF input.right THEN 1 ELSE 0) - (IF input.left THEN 1 ELSE 0)]

\* a player who moves as soon as a direction key is held
IsMoving_AnyKey(input) ==
    input.forward \/ input.backward \/ input.left \/ input.right

\* moveDirection.lengthSq() > 0.00001 (line 64)
IsMoving(input) == MoveDirection(input).a # 0 \/ MoveDirection(input).b # 0

\* a move direction that is not normalised
Normalizer_None(a, b) == 10000

\* moveDirection.normalize() (line 69): the factor, scaled by 1e4, that brings
\* a forward + b right to length 1
Normalizer(a, b) == IF a # 0 /\ b # 0 THEN 7071 ELSE 10000

\* a step of the same length whatever the frame took
Displace_FixedStep(position, dirX, dirZ, speed) ==
    [x |-> position.x + Round(MOVEMENT_SPEED * UPDATE_INTERVAL * dirX, 10000),
     y |-> position.y,
     z |-> position.z + Round(MOVEMENT_SPEED * UPDATE_INTERVAL * dirZ, 10000)]

\* position.clone().add(moveDirection.multiplyScalar(speed)) (lines 69-70); the
\* direction (dirX, dirZ) is scaled by 1e4
Displace(position, dirX, dirZ, speed) ==
    [x |-> position.x + Round(speed * dirX, 10000),
     y |-> position.y,
     z |-> position.z + Round(speed * dirZ, 10000)]

\* the forward vector of a yaw, scaled by 1e4 (lines 54 and 79)
ForwardVector(rotationY) == [x |-> -Sin(rotationY), z |-> -Cos(rotationY)]

\* a test against zero: any movement that is not forward counts as backward
MovingBackwards_BelowZero(worldMovement, forwardWorld) ==
    /\ worldMovement.x * worldMovement.x + worldMovement.z * worldMovement.z > 10
    /\ worldMovement.x * forwardWorld.x + worldMovement.z * forwardWorld.z < 0

\* lines 73-82: worldMovement.lengthSq() > 0.00001, then the dot product of the
\* normalised movement and the forward vector is below -0.5.  projection is the
\* movement along the forward vector, to the length unit.
MovingBackwards(worldMovement, forwardWorld) ==
    LET lengthSq   == worldMovement.x * worldMovement.x + worldMovement.z * worldMovement.z
        projection == Round(worldMovement.x * forwardWorld.x
                              + worldMovement.z * forwardWorld.z, 10000)
    IN  /\ lengthSq > 10
        /\ projection < 0
        /\ 4 * projection * projection > lengthSq

\* calculateNextPlayerState (lines 49-100); deltaTime in time units.  The move
\* direction is a forward + b right, normalised (1/sqrt 2 = 0.7071 on a diagonal).
calculateNextPlayerState(player, deltaTime) ==
    LET input == player.input
        a == MoveDirection(input).a
        b == MoveDirection(input).b
        speed == MOVEMENT_SPEED * deltaTime
        isMoving == IsMoving(input)
        norm == Normalizer(a, b)
        dirX == Round(norm * (b * Cos(player.rotationY) - a * Sin(player.rotationY)), 10000)
        dirZ == Round(norm * (-a * Cos(player.rotationY) - b * Sin(player.rotationY)), 10000)
        newPosition == IF isMoving
                       THEN Displace(player.position, dirX, dirZ, speed)
                       ELSE player.position
        worldMovement == [x |-> newPosition.x - player.position.x,
                          z |-> newPosition.z - player.position.z]
        isLocallyMovingBackwards ==
            isMoving /\ MovingBackwards(worldMovement, ForwardVector(player.rotationY))
        nextAnimationName == IF isMoving THEN "walk" ELSE "idle"
    IN  IF /\ ~isMoving
           /\ isMoving = player.isMoving
           /\ nextAnimationName = player.currentAnimationName
           /\ isLocallyMovingBackwards = player.isMovingBackwards
        THEN player
        ELSE [player EXCEPT !.position = newPosition,
                            !.isMoving = isMoving,
                            !.currentAnimationName = nextAnimationName,
                            !.isMovingBackwards = isMoving /\ isLocallyMovingBackwards,
                            !.fresh = TRUE]

\* if (next !== this.state.localPlayer) this.state = { ...this.state, localPlayer: next }
ReplaceLocalPlayer(w, next) ==
    IF next.fresh
    THEN [w EXCEPT !.ge.localPlayer = [next EXCEPT !.fresh = FALSE],
                   !.obs.states = @ + 1]
    ELSE w

\* a key update that also sets the animation state from the key
WithKey_Animated(player, key, pressed) ==
    [player EXCEPT !.input[key] = pressed,
                   !.animationState = IF pressed THEN "walkingForwards" ELSE "idle",
                   !.fresh = TRUE]

\* the player state a key update produces (lines 820-823)
WithKey(player, key, pressed) ==
    [player EXCEPT !.input[key] = pressed, !.fresh = TRUE]

\* GameEngine.handleInputUpdate, the callback given to the InputManager
handleInputUpdate(w, update) ==
    LET w0 == [w EXCEPT !.obs.rotated = @ \/ update.type = "rotation"]
        player == w.ge.localPlayer
    IN  IF player = Null THEN w0
        ELSE ReplaceLocalPlayer(w0,
                 CASE update.type = "key" ->
                          IF player.input[update.key] # update.pressed
                          THEN WithKey(player, update.key, update.pressed)
                          ELSE player
                   [] update.type = "pointerLock" ->
                          IF player.input.isPointerLocked # update.isLocked
                          THEN [player EXCEPT !.input.isPointerLocked = update.isLocked,
                                              !.fresh = TRUE]
                          ELSE player
                   [] update.type = "rotation" ->
                          updatePlayerRotation(player, update.deltaX, update.deltaY))

\* this.updateCallback(update) of the InputManager: the engine's handleInputUpdate
updateCallback(w, update) ==
    handleInputUpdate([w EXCEPT !.obs.emitted = @ + 1], update)

\* InputManager.handleKeyDown (lines 68-76) for the key of a direction
handleKeyDown(w, key) ==
    updateCallback(w, [type |-> "key", key |-> key, pressed |-> TRUE])

\* InputManager.handleKeyUp (lines 78-86) for the key of a direction
handleKeyUp(w, key) ==
    updateCallback(w, [type |-> "key", key |-> key, pressed |-> FALSE])

----------------------------------------------------------------------------
(* The server update gate *)

\* what a position report carries for the local player (lines 401-404)
PositionReport(player) ==
    [x |-> player.position.x, y |-> player.position.z, rotation |-> player.rotationY + PI]

\* what an input report carries for the local player (line 988)
InputReport(player) ==
    [input |-> player.input, rotation |-> player.rotationY + PI]

\* the cadence test of lines 399 and 986
ReportDue_TwoIntervals(now, lastUpdateTime) == now - lastUpdateTime >= 2 * UPDATE_INTERVAL

ReportDue(now, lastUpdateTime) == now - lastUpdateTime >= UPDATE_INTERVAL

\* a test that forgets the return to idle
AnimationChanged_WalkOnly(serverAnimationState, lastSentAnimationState) ==
    serverAnimationState # lastSentAnimationState /\ serverAnimationState # "idle"

\* the test of line 396
AnimationChanged(serverAnimationState, lastSentAnimationState) ==
    serverAnimationState # lastSentAnimationState

\* sendServerUpdates of the position-reporting engine (lines 377-421); throws
\* names the reducers that throw when called
sendPositionUpdates(w, now, throws) ==
    LET player == w.ge.localPlayer
        cur == PositionReport(player)
        serverAnimationState == LocalAnimationState(player)
        positionChanged == \/ Abs(cur.x - w.ge.lastSentPosition.x) > POSITION_THRESHOLD
                           \/ Abs(cur.y - w.ge.lastSentPosition.y) > POSITION_THRESHOLD
        rotationChanged == Abs(cur.rotation - w.ge.lastSentPosition.rotation)
                               > ROTATION_THRESHOLD
        animationChanged == AnimationChanged(serverAnimationState,
                                             w.ge.lastSentAnimationState)
        posOk == "updatePlayerPosition" \notin throws
        aniOk == "updatePlayerAnimationState" \notin throws
        w1 == IF ReportDue(now, w.ge.lastUpdateTime)
                 /\ (positionChanged \/ rotationChanged)
              THEN IF posOk
                   THEN [w EXCEPT !.obs.calls =
                                      Append(@, Call("updatePlayerPosition", cur, TRUE, now)),
                                  !.ge.lastSentPosition = cur,
                                  !.ge.lastUpdateTime = now]
                   ELSE [w EXCEPT !.obs.calls =
                                      Append(@, Call("updatePlayerPosition", cur, FALSE, now))]
              ELSE w
    IN  IF animationChanged
        THEN IF aniOk
             THEN [w1 EXCEPT !.obs.calls =
                                 Append(@, Call("updatePlayerAnimationState",
                                                [state |-> serverAnimationState], TRUE, now)),
                             !.ge.lastSentAnimationState = serverAnimationState]
             ELSE [w1 EXCEPT !.obs.calls =
                                 Append(@, Call("updatePlayerAnimationState",
                                                [state |-> serverAnimationState], FALSE, now))]
        ELSE w1

\* sendServerUpdates of the input-reporting engine (lines 973-995)
sendInputUpdates(w, now, throws) ==
    LET player == w.ge.localPlayer
        cur == InputReport(player)
        inputChanged == cur.input # w.ge.lastSentInput.input
        rotationChanged == Abs(cur.rotation - w.ge.lastSentInput.rotation) > ROTATION_THRESHOLD
    IN  IF ReportDue(now, w.ge.lastUpdateTime) /\ (inputChanged \/ rotationChanged)
        THEN IF "updatePlayerInput" \notin throws
             THEN [w EXCEPT !.obs.calls = Append(@, Call("updatePlayerInput", cur, TRUE, now)),
                            !.ge.lastSentInput = cur,
                            !.ge.lastUpdateTime = now]
             ELSE [w EXCEPT !.obs.calls = Append(@, Call("updatePlayerInput", cur, FALSE, now))]
        ELSE w

sendServerUpdates(w, now, throws) ==
    IF w.ge.connection = 0 \/ w.ge.localPlayer = Null THEN w
    ELSE IF design = "position" THEN sendPositionUpdates(w, now, throws)
    ELSE sendInputUpdates(w, now, throws)

----------------------------------------------------------------------------
(* The debug mode of the SceneManager.  collisionMeshes is {} while the     *)
(* group does not exist and {children} when it does, children being the    *)
(* sequence of the meshes' visible flags; the mesh of index i is            *)
(* children[i + 1].                                                         *)

The(option) == CHOOSE x \in option : TRUE

\* collisionMeshes?.children.length ?? 0
MeshCount(s) == IF s.collisionMeshes = {} THEN 0 ELSE Len(The(s.collisionMeshes))

\* the forEach that leaves only the mesh of the index visible (lines 376-378)
ShowOnly(s, index) ==
    IF s.collisionMeshes = {} THEN {}
    ELSE {[k \in 1..MeshCount(s) |-> k - 1 = index]}

\* lines 371-375; exists tells whether the group does
NextIndex(index, count, exists) ==
    IF index < count - 1 THEN index + 1 ELSE IF exists THEN 0 ELSE index

\* lines 386-390
PreviousIndex(index, count, exists) ==
    IF index > 0 THEN index - 1 ELSE IF exists THEN count - 1 ELSE index

\* SceneManager.setNextVisibleCollisionMesh (lines 366-379)
setNextVisibleCollisionMesh(s) ==
    LET index == IF s.currentCollisionMeshIndex = {} THEN 0
                 ELSE The(s.currentCollisionMeshIndex)
        next  == NextIndex(index, MeshCount(s), s.collisionMeshes # {})
    IN  [s EXCEPT !.currentCollisionMeshIndex = {next},
                  !.collisionMeshes = ShowOnly(s, next)]

\* SceneManager.setPreviousVisibleCollisionMesh (lines 381-394)
setPreviousVisibleCollisionMesh(s) ==
    LET index == IF s.currentCollisionMeshIndex = {} THEN 0
                 ELSE The(s.currentCollisionMeshIndex)
        prev  == PreviousIndex(index, MeshCount(s), s.collisionMeshes # {})
    IN  [s EXCEPT !.currentCollisionMeshIndex = {prev},
                  !.collisionMeshes = ShowOnly(s, prev)]

\* SceneManager.setCollisionMeshes (lines 397-415) given count meshes: the group
\* is emptied, or created, and gets the new meshes, each visible
setCollisionMeshes(s, count) ==
    [s EXCEPT !.collisionMeshes = {[k \in 1..count |-> TRUE]}]

\* SceneManager.setDebugMode (lines 418-450)
setDebugMode(s, isActive) ==
    IF s.isDebugActive = isActive THEN s
    ELSE [s EXCEPT !.isDebugActive = isActive,
                   !.currentCollisionMeshIndex = {},
                   !.collisionMeshes = IF @ = {} THEN {}
                                       ELSE {[k \in 1..MeshCount(s) |-> TRUE]}]

\* collisionMeshes?.children[currentCollisionMeshIndex].name (line 217) reads the
\* name of a mesh that does not exist
MissingMesh(s) ==
    /\ s.currentCollisionMeshIndex # {}
    /\ s.collisionMeshes # {}
    /\ The(s.currentCollisionMeshIndex) \notin 0..(MeshCount(s) - 1)

\* GameEngine.updateDebugInfo behind the test of isDebugActive (lines 880-882,
\* 924-938) and SceneManager.updateDebugInfo (lines 204-226)
updateDebugInfo(w) ==
    IF ~w.sm.isDebugActive THEN w
    ELSE [w EXCEPT !.obs.threw = MissingMesh(w.sm)]

\* GameEngine.toggleDebugMode (lines 1193-1200)
toggleDebugMode(w) ==
    updateDebugInfo([w EXCEPT !.sm = setDebugMode(w.sm, ~w.sm.isDebugActive)])

\* GameEngine.handleDebugToggleKey (lines 200-204 and 799-809); the
\* position-reporting engine knows the key P only
handleDebugToggleKey(w, key) ==
    CASE key = "p" -> toggleDebugMode(w)
      [] key = "[" /\ design = "input" ->
             [w EXCEPT !.sm = setNextVisibleCollisionMesh(w.sm)]
      [] key = "]" /\ design = "input" ->
             [w EXCEPT !.sm = setPreviousVisibleCollisionMesh(w.sm)]
      [] OTHER -> w

----------------------------------------------------------------------------
(* The frame loop *)

\* InputManager.handlePointerLockChange (lines 88-95): the callback part
handlePointerLockChange(w, input, locked) ==
    updateCallback([w EXCEPT !.obs.dropped =
                                 input.pendingMouseMovement # [deltaX |-> 0, deltaY |-> 0]],
                   [type |-> "pointerLock", isLocked |-> locked])

\* a lock change that keeps the pending movement
PointerLockState_KeepPending(input, locked) ==
    [input EXCEPT !.isPointerLocked = locked]

\* InputManager.handlePointerLockChange: the InputManager's own fields
PointerLockState(input, locked) ==
    [input EXCEPT !.isPointerLocked = locked,
                  !.pendingMouseMovement = [deltaX |-> 0, deltaY |-> 0]]

\* InputManager.applyPendingMouseMovement: the callback part
applyPendingMouseMovement(w, input) ==
    IF ~input.isPointerLocked THEN w
    ELSE IF input.pendingMouseMovement.deltaX = 0 /\ input.pendingMouseMovement.deltaY = 0
    THEN w
    ELSE updateCallback(w, [type |-> "rotation",
                            deltaX |-> input.pendingMouseMovement.deltaX,
                            deltaY |-> input.pendingMouseMovement.deltaY])

\* InputManager.applyPendingMouseMovement: the reset of the accumulator
ResetPendingMouseMovement(input) ==
    IF ~input.isPointerLocked THEN input
    ELSE [input EXCEPT !.pendingMouseMovement = [deltaX |-> 0, deltaY |-> 0]]

\* step 1b of the position-reporting engine's loop (lines 261-267)
SimulateLocalPlayer(w, deltaTime) ==
    IF design = "position" /\ w.ge.localPlayer # Null
    THEN ReplaceLocalPlayer(w, calculateNextPlayerState(w.ge.localPlayer, deltaTime))
    ELSE w

\* a loop that discards no frame
Discarded_Never(deltaTime) == FALSE

\* a frame whose deltaTime the loop discards (0.5 s is 1500 time units)
Discarded(deltaTime) == deltaTime <= 0 \/ deltaTime > 1500

\* a loop that runs on after dispose()
LoopStopped_Never(g) == FALSE

\* the test of line 243
LoopStopped(g) == g.isDisposed

\* gameLoop called with timestamp; input is the InputManager before the frame
gameLoop(w, input, timestamp, throws) ==
    IF LoopStopped(w.ge) THEN w
    ELSE LET deltaTime == timestamp - w.ge.lastTimestamp
             w0 == [w EXCEPT !.ge.lastTimestamp = timestamp,
                             !.ge.animationFrameId = TRUE]
         IN  IF Discarded(deltaTime) THEN w0
             ELSE LET w1 == applyPendingMouseMovement(w0, input)
                      w2 == SimulateLocalPlayer(w1, deltaTime)
                      w3 == updateSceneFromState(w2)
                      w4 == sendServerUpdates(w3, timestamp, throws)
                      w5 == updateDebugInfo(w4)
                  IN  [w5 EXCEPT !.obs.rendered = ~w5.sm.isDisposed /\ ~w5.obs.threw]

----------------------------------------------------------------------------
(* Disposal *)

\* SceneManager.dispose (lines 738-795)
SceneManager_dispose(w) ==
    IF w.sm.isDisposed THEN w
    ELSE [w EXCEPT !.sm.isDisposed = TRUE,
                   !.sm.resizeListening = FALSE,
                   !.obs.disposed = @ \cup DOMAIN w.sm.playerRenderComponents
                                      \cup (IF w.sm.localPlayerRenderComponent # Null
                                            THEN {"local"} ELSE {}),
                   !.sm.localPlayerRenderComponent = Null,
                   !.sm.sceneLocalModels = IF w.sm.localPlayerRenderComponent # Null
                                           THEN @ - 1 ELSE @,
                   !.sm.playerRenderComponents = EmptyMap,
                   !.sm.characterModelTemplate = FALSE,
                   !.sm.idleClips = FALSE,
                   !.sm.walkClips = FALSE]

\* GameEngine.dispose (lines 636-654)
dispose(w) ==
    IF w.ge.isDisposed THEN w
    ELSE LET w1 == [w EXCEPT !.ge.isDisposed = TRUE, !.ge.animationFrameId = FALSE]
             w2 == disconnect(w1)
             w3 == SceneManager_dispose(w2)
         IN  [w3 EXCEPT !.ge.debugKeyListening = FALSE]

----------------------------------------------------------------------------
(* The connection objects.  A connection the engine has left has no        *)
(* observer once no callback of it can run any more: its subscription is   *)
(* answered, no row callback is registered on it, and the callbacks created *)
(* for it are registered nowhere.  Such an object is dropped from the      *)
(* model, and its slot stands for the next connection object.  A connection *)
(* that was left with its subscription still pending keeps the answer.     *)

UnusedConnection ==
    [ident |-> "", status |-> "unused", wire |-> <<>>, cache |-> EmptyMap, reg |-> {}]

Observed(w, c) == c = w.ge.connection \/ w.net[c].reg # {}

Referenced(w, k) == \E c \in ConnIds : k \in w.net[c].reg

Settle(w) ==
    [w EXCEPT !.net = [c \in ConnIds |->
        IF Observed(w, c) \/ w.net[c].status = "unused" THEN w.net[c]
        ELSE IF w.net[c].status = "pending"
             THEN [w.net[c] EXCEPT !.wire = <<Head(w.net[c].wire)>>]
             ELSE IF Referenced(w, c)
                  THEN [w.net[c] EXCEPT !.wire = <<>>, !.cache = EmptyMap]
                  ELSE UnusedConnection]]

\* the backend sends a row event to every subscribed connection that is observed
Listening(c) == net[c].status \in {"pending", "applied"}
                /\ (c = ge.connection \/ net[c].reg # {})

CanBroadcast == \A c \in ConnIds : Listening(c) => Len(net[c].wire) < MaxWire

Broadcast(msg) ==
    [c \in ConnIds |-> IF Listening(c) THEN [net[c] EXCEPT !.wire = Append(@, msg)]
                       ELSE net[c]]

ApplyToCache(cache, msg) ==
    CASE msg.type = "insert" -> Put(cache, msg.row.identity, msg.row)
      [] msg.type = "update" -> Put(cache, msg.new.identity, msg.new)
      [] msg.type = "delete" -> Remove(cache, msg.row.identity)

\* one registered callback set k is invoked with a row event
InvokeRow(w, k, msg) ==
    CASE msg.type = "insert" -> onInsert(w, k, msg.row)
      [] msg.type = "update" -> onUpdate(w, k, msg.old, msg.new)
      [] msg.type = "delete" -> onDelete(w, k, msg.row)

\* the callback sets registered on a connection are invoked in registration-id order
RECURSIVE InvokeAll(_, _, _, _)
InvokeAll(w, regs, k, msg) ==
    IF k > MaxConn THEN w
    ELSE InvokeAll(IF k \in regs THEN InvokeRow(w, k, msg) ELSE w, regs, k + 1, msg)

----------------------------------------------------------------------------
(* What the backend's reducers have received.  A report is a call of        *)
(* updatePlayerPosition or updatePlayerInput.                               *)

ReportNames == {"updatePlayerPosition", "updatePlayerInput"}

Reducers ==
    IF design = "position" THEN {"updatePlayerPosition", "updatePlayerAnimationState"}
    ELSE {"updatePlayerInput"}

\* what a report would carry now
CurrentReport(player) ==
    IF design = "position" THEN PositionReport(player) ELSE InputReport(player)

\* the change between two reports exceeds a per-field threshold
Differs(cur, last) ==
    IF design = "position"
    THEN \/ Abs(cur.x - last.x) > POSITION_THRESHOLD
         \/ Abs(cur.y - last.y) > POSITION_THRESHOLD
         \/ Abs(cur.rotation - last.rotation) > ROTATION_THRESHOLD
    ELSE \/ cur.input # last.input
         \/ Abs(cur.rotation - last.rotation) > ROTATION_THRESHOLD

NoReport ==
    [ frames   |-> 0,       \* frames the browser has run
      discards |-> 0,       \* those of them the running loop discarded
      moved    |-> [deltaX |-> 0, deltaY |-> 0],
                            \* the sum of the mouse movement received under pointer
                            \* lock since the last rotation update or lock change
      time     |-> -1,      \* when the last report succeeded, -1 when none did
      value    |-> Null,    \* what it carried
      failed   |-> {},      \* the calls that threw in the last frame that ran
      deferred |-> Null,    \* what a report would have carried on the first frame
                            \* since then that saw a change and did not report
      late     |-> FALSE ]  \* the last report was made by a frame after such a
                            \* deferral and carried something else

Attempted(calls, names) == \E n \in 1..Len(calls) : calls[n].name \in names

Succeeded(calls) == SelectSeq(calls, LAMBDA c : c.name \in ReportNames /\ c.ok)

Thrown(calls) == {[name |-> calls[n].name, args |-> calls[n].args] :
                     n \in {m \in 1..Len(calls) : ~calls[m].ok}}

\* the history after a handler that left the bundle w
Record(h, w) ==
    LET calls == w.obs.calls
        frame == w.obs.kind = "frame" /\ (w.obs.rendered \/ w.obs.threw)
        live  == w.ge.connection # 0 /\ w.ge.localPlayer # Null
        h0 == IF w.obs.rotated \/ w.obs.kind = "pointerlock"
              THEN [h EXCEPT !.moved = [deltaX |-> 0, deltaY |-> 0]]
              ELSE h
        h1 == IF w.obs.kind \in {"connect", "disconnect", "error", "dispose"}
              THEN [h0 EXCEPT !.deferred = Null, !.failed = {}]
              ELSE IF frame THEN [h0 EXCEPT !.failed = Thrown(calls), !.frames = @ + 1]
              ELSE IF w.obs.kind = "frame"
                   THEN [h0 EXCEPT !.frames = @ + 1,
                                   !.discards = IF w.ge.isDisposed THEN @ ELSE @ + 1]
              ELSE h0
    IN  IF Succeeded(calls) # <<>>
        THEN LET r == Succeeded(calls)[Len(Succeeded(calls))]
             IN  [h1 EXCEPT !.time = r.at, !.value = r.args, !.deferred = Null,
                            !.late = frame /\ h.deferred # Null /\ h.deferred # r.args]
        ELSE IF /\ frame /\ live /\ ~Attempted(calls, ReportNames)
                /\ h.value # Null /\ h.deferred = Null
                /\ Differs(CurrentReport(w.ge.localPlayer), h.value)
             THEN [h1 EXCEPT !.deferred = CurrentReport(w.ge.localPlayer)]
             ELSE h1

----------------------------------------------------------------------------
(* Initial state: the engine has been constructed, nothing is loaded,      *)
(* nothing is connected.                                                   *)

InitialEngine ==
    [ localPlayer            |-> Null,
      players                |-> EmptyMap,
      connection             |-> 0,
      dbCallbacks            |-> 0,
      lastUpdateTime         |-> 0,
      lastSentPosition       |-> [x |-> 0, y |-> 0, rotation |-> 0],
      lastSentAnimationState |-> "null",
      lastSentInput          |-> [input |-> initialInputState, rotation |-> 0],
      lastTimestamp          |-> 0,
      animationFrameId       |-> TRUE,
      debugKeyListening      |-> TRUE,
      isDisposed             |-> FALSE ]

InitialScene ==
    [ assetsLoaded               |-> NoAssets,
      characterModelTemplate     |-> FALSE,
      idleClips                  |-> FALSE,
      walkClips                  |-> FALSE,
      playerRenderComponents     |-> EmptyMap,
      localPlayerRenderComponent |-> Null,
      sceneLocalModels           |-> 0,      \* models of the local player in the scene
      isDebugActive              |-> FALSE,
      collisionMeshes            |-> {},     \* null: {}; a group: {its children}
      currentCollisionMeshIndex  |-> {},     \* null: {}; the index i: {i}
      resizeListening            |-> TRUE,
      isDisposed                 |-> FALSE ]

InitialInput ==
    [ pendingMouseMovement |-> [deltaX |-> 0, deltaY |-> 0],
      isPointerLocked      |-> FALSE,
      listening            |-> TRUE ]

Init ==
    /\ design \in {"position", "input"}
    /\ app = [connection |-> 0]
    /\ ge = InitialEngine
    /\ sm = InitialScene
    /\ im = InitialInput
    /\ net = [c \in ConnIds |-> UnusedConnection]
    /\ dbRows = EmptyMap
    /\ clock = 0
    /\ obs = NoObs
    /\ hist = NoReport

\* the bundle a handler starts from, and the step that publishes its result
World(kind, id) == [ge |-> ge, sm |-> sm, net |-> net,
                    obs |-> [NoObs EXCEPT !.kind = kind, !.id = id]]

\* a step of the environment: no handler runs
NoHandler ==
    /\ obs' = NoObs
    /\ hist' = hist

Publish(w) ==
    LET r == Settle(w)
    IN  /\ ge' = r.ge
        /\ sm' = r.sm
        /\ net' = r.net
        /\ obs' = r.obs
        /\ hist' = Record(hist, r)

----------------------------------------------------------------------------
(* Actions: the session *)

\* App.handleConnect -> GameEngine.connect with a connection object never used before
Connect(c, i, thrown) ==
    /\ ~ge.isDisposed
    /\ c # ge.connection
    /\ net[c].status = "unused"
    /\ \A d \in ConnIds : d < c => (net[d].status # "unused" \/ d = ge.connection)
    /\ app' = [app EXCEPT !.connection = c]
    /\ Publish(connect(World("connect", toHexString(i)), c, toHexString(i),
                       thrown, clock, dbRows))
    /\ UNCHANGED <<design, im, dbRows, clock>>

\* GameEngine.disconnect called on a connected engine
Disconnect ==
    /\ ge.connection # 0
    /\ Publish(disconnect(World("disconnect", "")))
    /\ UNCHANGED <<design, app, im, dbRows, clock>>

\* the answer to subscription c arrives: the cache is filled, onApplied runs
DeliverApplied(c) ==
    /\ net[c].wire # <<>>
    /\ Head(net[c].wire).type = "applied"
    /\ LET w0 == World("applied", "")
           w1 == [w0 EXCEPT !.net[c].cache = Head(net[c].wire).rows,
                            !.net[c].status = "applied",
                            !.net[c].wire = Tail(@)]
       IN  Publish(onApplied(w1, c))
    /\ UNCHANGED <<design, app, im, dbRows, clock>>

\* a row event arrives on connection c: the cache is updated, then every
\* callback set registered on c.db.player runs
DeliverRow(c) ==
    /\ net[c].wire # <<>>
    /\ Head(net[c].wire).type \in {"insert", "update", "delete"}
    /\ LET msg == Head(net[c].wire)
           row == IF msg.type = "update" THEN msg.new ELSE msg.row
           w0  == World(msg.type, RowId(row))
           w1  == [w0 EXCEPT !.net[c].cache = ApplyToCache(@, msg),
                             !.net[c].wire = Tail(@)]
       IN  Publish(InvokeAll(w1, net[c].reg, 1, msg))
    /\ UNCHANGED <<design, app, im, dbRows, clock>>

\* the backend refuses subscription c: onError runs, which disconnects
SubscriptionError(c) ==
    /\ net[c].status = "pending"
    /\ LET w0 == World("error", "")
           w1 == [w0 EXCEPT !.net[c].status = "failed", !.net[c].wire = <<>>]
       IN  Publish(disconnect(w1))
    /\ UNCHANGED <<design, app, im, dbRows, clock>>

----------------------------------------------------------------------------
(* Actions: the backend's Player table *)

ServerInsert(i, p) ==
    /\ i \notin DOMAIN dbRows
    /\ CanBroadcast
    /\ dbRows' = Put(dbRows, i, Row(i, p))
    /\ net' = Broadcast([type |-> "insert", row |-> Row(i, p)])
    /\ NoHandler
    /\ UNCHANGED <<design, app, ge, sm, im, clock>>

ServerUpdate(i, p) ==
    /\ i \in DOMAIN dbRows
    /\ dbRows[i] # Row(i, p)
    /\ CanBroadcast
    /\ dbRows' = Put(dbRows, i, Row(i, p))
    /\ net' = Broadcast([type |-> "update", old |-> dbRows[i], new |-> Row(i, p)])
    /\ NoHandler
    /\ UNCHANGED <<design, app, ge, sm, im, clock>>

ServerDelete(i) ==
    /\ i \in DOMAIN dbRows
    /\ CanBroadcast
    /\ dbRows' = Remove(dbRows, i)
    /\ net' = Broadcast([type |-> "delete", row |-> dbRows[i]])
    /\ NoHandler
    /\ UNCHANGED <<design, app, ge, sm, im, clock>>

----------------------------------------------------------------------------
(* Reconciliation: one connection object at a time (the next connect comes *)
(* after the previous subscription was answered), every row event of the   *)
(* backend, in any interleaving with the subscription.  Assets not loaded. *)

DefaultPayload == CHOOSE p \in Payloads : p.animationState = "idle"

NextRecon ==
    \/ \E i \in LocalIdentities : Connect(1, i, 0)
    \/ Disconnect
    \/ DeliverApplied(1)
    \/ DeliverRow(1)
    \/ SubscriptionError(1)
    \/ \E i \in Identities, p \in Payloads : ServerInsert(i, p)
    \/ \E i \in Identities, p \in Payloads : ServerUpdate(i, p)
    \/ \E i \in Identities : ServerDelete(i)

SpecRecon == Init /\ [][NextRecon]_vars

----------------------------------------------------------------------------
(* Sessions: connect, disconnect and reconnect in any interleaving with the *)
(* answers of earlier subscriptions; the backend holds the rows of the     *)
(* clients' own identities.  Assets not loaded.                            *)

NextSessions ==
    \/ \E c \in ConnIds, i \in LocalIdentities : Connect(c, i, 0)
    \/ Disconnect
    \/ \E c \in ConnIds : DeliverApplied(c)
    \/ \E c \in ConnIds : DeliverRow(c)
    \/ \E c \in ConnIds : SubscriptionError(c)
    \/ \E i \in LocalIdentities : ServerInsert(i, DefaultPayload)
    \/ \E i \in LocalIdentities : ServerDelete(i)

SpecSessions == Init /\ [][NextSessions]_vars

----------------------------------------------------------------------------
(* Actions: asset loading *)

\* the loader reports asset a; each of the four loads completes at most once
AssetLoaded(a) ==
    /\ ~sm.assetsLoaded[a]
    /\ Publish(loadAssets(World("asset", a), a))
    /\ UNCHANGED <<design, app, im, dbRows, clock>>

----------------------------------------------------------------------------
(* Actions: input events and frames *)

MaxFrames == 3      \* frames the browser runs
MaxYaw == 120       \* the widest yaw the mouse is moved to
MaxPitch == 24000   \* the widest change of pitch the mouse is moved to, clamping aside
MaxTurn == 40000    \* the widest yaw the mouse is swept to while nobody walks

\* a keydown event for a movement key; the browser repeats it while the key is held
KeyDown(key) ==
    /\ im.listening
    /\ Publish(handleKeyDown(World("key", ""), key))
    /\ UNCHANGED <<design, app, im, dbRows, clock>>

\* a keyup event for a movement key
KeyUp(key) ==
    /\ im.listening
    /\ Publish(handleKeyUp(World("key", ""), key))
    /\ UNCHANGED <<design, app, im, dbRows, clock>>

\* a pointerlockchange event; locked tells whether the canvas holds the lock now
PointerLockChange(locked) ==
    /\ im.listening
    /\ Publish(handlePointerLockChange(World("pointerlock", ""), im, locked))
    /\ im' = PointerLockState(im, locked)
    /\ UNCHANGED <<design, app, dbRows, clock>>

\* the yaw and the pitch change the accumulated mouse movement would lead to
YawAfter(deltaX) ==
    (IF ge.localPlayer = Null THEN 0 ELSE ge.localPlayer.rotationY)
        - (im.pendingMouseMovement.deltaX + deltaX) * MOUSE_SENSITIVITY

PitchAfter(deltaY) ==
    (IF ge.localPlayer = Null THEN 0 ELSE ge.localPlayer.pitch - HALF_PI)
        + (im.pendingMouseMovement.deltaY + deltaY) * MOUSE_SENSITIVITY

\* a handler that keeps the last movement only
handleMouseMove_Overwrite(input, deltaX, deltaY) ==
    IF ~input.isPointerLocked THEN input
    ELSE [input EXCEPT !.pendingMouseMovement = [deltaX |-> deltaX, deltaY |-> deltaY]]

\* a handler that accumulates whether the pointer is locked or not
handleMouseMove_Unlocked(input, deltaX, deltaY) ==
    [input EXCEPT !.pendingMouseMovement.deltaX = @ + deltaX,
                  !.pendingMouseMovement.deltaY = @ + deltaY]

\* InputManager.handleMouseMove (lines 97-102)
handleMouseMove(input, deltaX, deltaY) ==
    IF ~input.isPointerLocked THEN input
    ELSE [input EXCEPT !.pendingMouseMovement.deltaX = @ + deltaX,
                       !.pendingMouseMovement.deltaY = @ + deltaY]

\* a mousemove event reaches the InputManager, which calls nothing of the engine
MouseEvent(deltaX, deltaY) ==
    /\ im' = handleMouseMove(im, deltaX, deltaY)
    /\ obs' = NoObs
    /\ hist' = IF im.isPointerLocked
               THEN [hist EXCEPT !.moved.deltaX = @ + deltaX, !.moved.deltaY = @ + deltaY]
               ELSE hist

\* a mousemove event
MouseMove(deltaX, deltaY) ==
    /\ im.listening
    /\ Abs(YawAfter(deltaX)) <= MaxYaw
    /\ Abs(PitchAfter(deltaY)) <= MaxPitch
    /\ MouseEvent(deltaX, deltaY)
    /\ UNCHANGED <<design, app, ge, sm, net, dbRows, clock>>

\* a mousemove event of a wide sweep
MouseSweep(deltaX, deltaY) ==
    /\ im.listening
    /\ Abs(YawAfter(deltaX)) <= MaxTurn
    /\ Abs(PitchAfter(deltaY)) <= MaxPitch
    /\ MouseEvent(deltaX, deltaY)
    /\ UNCHANGED <<design, app, ge, sm, net, dbRows, clock>>

\* the effect clean-up of App (line 570): the engine is disposed
Dispose ==
    /\ ~ge.isDisposed
    /\ Publish(dispose(World("dispose", "")))
    /\ UNCHANGED <<design, app, im, dbRows, clock>>

\* the browser runs the frame callback deltaTime after the previous timestamp; the
\* callback runs if it is scheduled, and a callback already taken from the
\* browser's queue when dispose() cancelled it runs all the same
GameLoop(deltaTime, throws) ==
    /\ ge.animationFrameId \/ ge.isDisposed
    /\ hist.frames < MaxFrames
    /\ clock' = clock + deltaTime
    /\ Publish(gameLoop(World("frame", ""), im, clock + deltaTime, throws))
    /\ im' = IF LoopStopped(ge) \/ Discarded(clock + deltaTime - ge.lastTimestamp) THEN im
              ELSE ResetPendingMouseMovement(im)
    /\ UNCHANGED <<design, app, dbRows>>

----------------------------------------------------------------------------
(* The server update gate: one session, the movement keys W and S, the      *)
(* mouse (a step of 6 pixels turns by more than ROTATION_THRESHOLD), frames *)
(* shorter than POSITION_THRESHOLD / MOVEMENT_SPEED and frames as long as   *)
(* UPDATE_INTERVAL, reducer calls that throw.                               *)

InitialThrows == IF design = "position" THEN 0..2 ELSE 0..1

FrameLengths == {5, 100}

MouseSteps == {6}

NextGate ==
    \/ \E thrown \in InitialThrows : Connect(1, 10, thrown)
    \/ \E key \in {"forward", "backward"} : KeyDown(key)
    \/ \E key \in {"forward", "backward"} : KeyUp(key)
    \/ \E locked \in BOOLEAN : PointerLockChange(locked)
    \/ \E deltaX \in MouseSteps : MouseMove(deltaX, 0)
    \/ \E deltaTime \in FrameLengths, throws \in SUBSET Reducers : GameLoop(deltaTime, throws)

SpecGate == Init /\ [][NextGate]_vars

----------------------------------------------------------------------------
(* Render synchronization: one session at a time, the assets load in any    *)
(* order and at any moment, players join idle and leave, the local player's *)
(* row and one remote player's row change their animation state.           *)

NextScene ==
    \/ \E a \in Assets : AssetLoaded(a)
    \/ Connect(1, 10, 0)
    \/ Disconnect
    \/ DeliverApplied(1)
    \/ DeliverRow(1)
    \/ \E i \in Identities : ServerInsert(i, DefaultPayload)
    \/ \E i \in {10, 11}, p \in AnimationPayloads : ServerUpdate(i, p)
    \/ \E i \in {11, 12} : ServerDelete(i)

SpecScene == Init /\ [][NextScene]_vars

----------------------------------------------------------------------------
(* Placement: one session, the assets load at any moment (an asset that    *)
(* fails to load never does), remote players standing away from the origin *)
(* join and leave, frames run.                                              *)

NextPlacement ==
    \/ \E a \in Assets : AssetLoaded(a)
    \/ Connect(1, 10, 0)
    \/ DeliverApplied(1)
    \/ DeliverRow(1)
    \/ \E i \in {11, 12}, p \in PlacedPayloads : ServerInsert(i, p)
    \/ \E i \in {11, 12} : ServerDelete(i)
    \/ GameLoop(UPDATE_INTERVAL, {})

SpecPlacement == Init /\ [][NextPlacement]_vars

----------------------------------------------------------------------------
(* Properties of the reconciler *)

LocalId == IF ge.localPlayer = Null THEN "" ELSE ge.localPlayer.identity

\* C1: state.players never holds the local player's own identity as a key,
\* whatever sequence of connect, subscription-applied and row events led here.
C1_NoSelfInRemotePlayers ==
    ge.localPlayer # Null => ~Has(ge.players, ge.localPlayer.identity)

Quiescent == \A c \in ConnIds : net[c].wire = <<>>

\* C2: row callbacks are registered on a connection only once its initial
\* snapshot has been folded, and once every delivered event is processed the
\* remote-player map is the backend's Player table minus the local row.
C2_SnapshotThenSubscribe ==
    /\ \A c \in ConnIds : net[c].reg # {} => net[c].status = "applied"
    /\ ( /\ ge.connection # 0
         /\ net[ge.connection].status = "applied"
         /\ Quiescent )
       => ge.players = FoldInitial(dbRows, LocalId)

IsNoOpFold(f) ==
    \/ f.type = "delete" /\ ~f.present
    \/ f.type # "initial" /\ f.id = f.localId

\* C9: a fold that is a no-op on the map (a delete of an absent identity, any
\* event for the local identity) returns the reference it was given.
C9_NoOpFoldKeepsReference ==
    \A n \in 1..Len(obs.folds) : IsNoOpFold(obs.folds[n]) => obs.folds[n].sameRef

\* C10: an update event for an identity present in the map leaves the number of
\* entries unchanged, maps that identity to the updated row and leaves every
\* other entry as it was.
C10_UpdateReplacesInPlace ==
    [][ ( /\ obs'.kind = "update"
          /\ obs'.folds # <<>>
          /\ obs'.folds[1].present )
        => /\ DOMAIN ge.players' = DOMAIN ge.players
           /\ Cardinality(DOMAIN ge.players') = Cardinality(DOMAIN ge.players)
           /\ ge.players'[obs'.id] = Head(net[1].wire).new
           /\ \A k \in DOMAIN ge.players \ {obs'.id} : ge.players'[k] = ge.players[k]
      ]_vars

\* an initial snapshot of two remote rows was folded, then an update for one of them
C10_Witness ==
    /\ obs.kind = "update"
    /\ obs.folds # <<>>
    /\ obs.folds[1].present
    /\ Cardinality(DOMAIN ge.players) = 2
    /\ ge.players[obs.id].animationState = "walkingForwards"

----------------------------------------------------------------------------
(* Properties of the render synchronizer *)

ComponentKeys == DOMAIN sm.playerRenderComponents

PlayerKeys == DOMAIN ge.players

\* C3 as stated: after every pass of updateRemotePlayers the component keys equal
\* the keys of the player map that was passed in.
C3_KeysEqualAfterPass ==
    obs.passes > 0 => ComponentKeys = PlayerKeys

\* C3: after every pass of updateRemotePlayers there is no orphan component (every
\* component key is a key of the player map passed in), and once the character
\* template and both clip sets are loaded there is no missing entry either.
C3_KeysAfterPass ==
    obs.passes > 0 =>
        /\ ComponentKeys \subseteq PlayerKeys
        /\ areRenderAssetsReady(sm) => ComponentKeys = PlayerKeys

\* a pass that removed the component of a player who left while another stays
C3_Witness ==
    /\ obs.passes > 0
    /\ obs.kind = "delete"
    /\ obs.disposed # {}
    /\ areRenderAssetsReady(sm)
    /\ ComponentKeys = PlayerKeys
    /\ ComponentKeys # {}

\* the render component of key k, Null when there is none
Component(k) ==
    IF k = "local" THEN sm.localPlayerRenderComponent
    ELSE IF Has(sm.playerRenderComponents, k) THEN sm.playerRenderComponents[k]
    ELSE Null

\* the animation classification the pass carries for key k
Carried(k) ==
    IF k = "local"
    THEN IF ge.localPlayer = Null THEN "none"
         ELSE createLocalPlayerRenderData(ge.localPlayer).animationState
    ELSE IF Has(ge.players, k) THEN ge.players[k].animationState ELSE "none"

\* C4: for a component whose current animation is idle, a pass carrying
\* walkingForwards starts exactly one crossfade (idle fades out, walk is reset and
\* fades in, walk rate +1); for a component in walk, a pass carrying
\* walkingBackwards starts no crossfade and only sets the walk rate to -1.
C4_OneCrossfadePerBucketChange ==
    [][ \A k \in CompKeys :
          ( /\ obs'.passes > 0
            /\ Component(k) # Null
            /\ Component(k)' # Null
            /\ k \notin obs'.disposed )
          => /\ ( Component(k).currentAnimation = "idle" /\ Carried(k)' = "walkingForwards" )
                => /\ obs'.xf[k] = 1
                   /\ Component(k)'.actions = [idle |-> "out", walk |-> "in"]
                   /\ Component(k)'.currentAnimation = "walk"
                   /\ Component(k)'.timeScale = 1
             /\ ( Component(k).currentAnimation = "walk" /\ Carried(k)' = "walkingBackwards" )
                => /\ obs'.xf[k] = 0
                   /\ Component(k)'.actions = Component(k).actions
                   /\ Component(k)'.currentAnimation = "walk"
                   /\ Component(k)'.timeScale = -1 ]_vars

\* the row of a remote player whose component was walking forwards was updated to
\* walkingBackwards: no crossfade, rate -1
C4_Witness ==
    /\ obs.kind = "update"
    /\ obs.id = "0b"
    /\ obs.passes > 0
    /\ Component("0b") # Null
    /\ Carried("0b") = "walkingBackwards"
    /\ obs.xf["0b"] = 0
    /\ Component("0b").timeScale = -1
    /\ Component("0b").actions = [idle |-> "out", walk |-> "in"]

----------------------------------------------------------------------------
(* Properties of the server update gate *)

\* the frame that just ran reached sendServerUpdates with a session and a player
GateRan == obs.kind = "frame" /\ obs.rendered /\ ge.connection # 0 /\ ge.localPlayer # Null

\* C5: a frame issues a position/rotation report (an input/rotation report in the
\* input-reporting engine) only if at least UPDATE_INTERVAL has passed since the
\* last report that succeeded and the current value differs from the last one
\* transmitted by more than a per-field threshold.
C5_ReportOnlyWhenDueAndChanged ==
    [][ (obs'.kind = "frame" /\ Attempted(obs'.calls, ReportNames))
        => /\ hist.time # -1 => clock' - hist.time >= UPDATE_INTERVAL
           /\ hist.value # Null => Differs(CurrentReport(ge'.localPlayer), hist.value) ]_vars

C8_FailedCallNotRetried ==
    [][ obs'.kind = "frame"
        => /\ Thrown(obs'.calls) # {} => obs'.rendered
           /\ \A n \in 1..Len(obs'.calls) :
                 [name |-> obs'.calls[n].name, args |-> obs'.calls[n].args]
                     \notin hist.failed ]_vars

----------------------------------------------------------------------------
(* Properties of the scene's life cycle *)

\* C11: when the initial snapshot is folded while the render assets are ready,
\* every remote row gets a render component placed at the row's position, with the
\* row's yaw and the animation of the row's animation state; a delete for an
\* identity that has a component removes the component and disposes it.
C11_SnapshotRowGetsComponent ==
    [][ /\ ( obs'.kind = "applied" /\ obs'.passes > 0 /\ areRenderAssetsReady(sm) )
           => \A k \in DOMAIN ge.players' :
                 /\ Component(k)' # Null
                 /\ Component(k)'.position = ge.players'[k].position
                 /\ Component(k)'.rotationY = ge.players'[k].rotationYaw
                 /\ Component(k)'.currentAnimation =
                        AnimationNameOf(ge.players'[k].animationState)
        /\ \A k \in HexIds :
              ( obs'.kind = "delete" /\ obs'.id = k /\ obs'.passes > 0
                /\ Component(k) # Null )
              => /\ Component(k)' = Null
                 /\ k \in obs'.disposed ]_vars

\* the identity of key k appears in the snapshot
InSnapshot(k) == IF k = "local" THEN ge.localPlayer # Null ELSE Has(ge.players, k)

\* C12: a pass of the render synchronizer removes and disposes every component
\* whose identity is not in the snapshot it is given, delete event or not; after
\* disconnect() no local and no remote component is left.
C12_AbsentIdentityLosesComponent ==
    [][ /\ \A k \in CompKeys :
              ( obs'.passes > 0 /\ Component(k) # Null /\ ~InSnapshot(k)' )
              => Component(k)' = Null /\ k \in obs'.disposed
        /\ obs'.kind = "disconnect"
              => \A k \in CompKeys : Component(k)' = Null ]_vars

\* disconnect() disposed the local component and a remote one without any delete event
C12_Witness ==
    /\ obs.kind = "disconnect"
    /\ "local" \in obs.disposed
    /\ obs.disposed \ {"local"} # {}
    /\ \A k \in CompKeys : Component(k) = Null
    /\ dbRows # EmptyMap

\* the loads of the character template and of both animation clips have completed
CharacterLoaded ==
    sm.assetsLoaded.template /\ sm.assetsLoaded.idle /\ sm.assetsLoaded.walk

\* C13: until the character template and both clips are loaded no render component
\* exists; once they are, every pass of the render synchronizer (a state update or
\* a frame) leaves every player of the snapshot with a component.
C13_ComponentsOnceAssetsReady ==
    [][ /\ ~CharacterLoaded' => \A k \in CompKeys : Component(k)' = Null
        /\ ( CharacterLoaded' /\ obs'.passes > 0 )
              => \A k \in CompKeys : InSnapshot(k)' => Component(k)' # Null ]_vars

\* the stadium never loaded, so the loader's callback never ran: a frame created the
\* components of the local player and of a remote player that had joined before
C13_Witness ==
    /\ obs.kind = "frame"
    /\ CharacterLoaded
    /\ ~sm.assetsLoaded.stadium
    /\ Component("local") # Null
    /\ Component("0b") # Null
    /\ obs.xf["0b"] = 1

----------------------------------------------------------------------------
(* Properties of the frame loop *)

(* The loop: one session, the W key, the mouse turning a little and       *)
(* tilting up and down past the pitch limits, frames of no length, of      *)
(* UPDATE_INTERVAL and of more than half a second, and the disposal of the *)
(* engine at any moment.                                                   *)

TiltSteps == {-400, 400}

LoopFrameLengths == {0, UPDATE_INTERVAL, 1600}

NextLoop ==
    \/ Connect(1, 10, 0)
    \/ KeyDown("forward")
    \/ KeyUp("forward")
    \/ \E locked \in BOOLEAN : PointerLockChange(locked)
    \/ \E deltaX \in MouseSteps : MouseMove(deltaX, 0)
    \/ \E deltaY \in TiltSteps : MouseMove(0, deltaY)
    \/ \E deltaTime \in LoopFrameLengths : GameLoop(deltaTime, {})
    \/ Dispose

SpecLoop == Init /\ [][NextLoop]_vars

\* what the engine remembers of its last report
LastSent == [position  |-> ge.lastSentPosition,
             animation |-> ge.lastSentAnimationState,
             input     |-> ge.lastSentInput,
             time      |-> ge.lastUpdateTime]

\* C14: in a running engine a frame that comes no later than the previous one, or more than half a
\* second after it, changes neither the local player nor the scene nor the record
\* of the last report and calls no reducer, and the next frame's deltaTime is
\* measured from its timestamp: the local player never moves further in a frame
\* than MOVEMENT_SPEED times the time since the previous frame, discarded or not.
C14_DiscardedFrameChangesNothing ==
    [][ ( obs'.kind = "frame" /\ ~ge.isDisposed ) =>
          /\ ( clock' - ge.lastTimestamp <= 0 \/ clock' - ge.lastTimestamp > 1500 )
                => /\ ge.localPlayer' = ge.localPlayer
                   /\ ge.players' = ge.players
                   /\ sm' = sm
                   /\ LastSent' = LastSent
                   /\ obs'.calls = <<>>
                   /\ ~obs'.rendered
          /\ ge.lastTimestamp' = clock'
          /\ ( ge.localPlayer # Null /\ ge.localPlayer' # Null )
                => Abs(ge.localPlayer.position.z' - ge.localPlayer.position.z)
                       <= MOVEMENT_SPEED * (clock' - clock) ]_vars

\* W is held; a frame of 1600 was discarded and the frame UPDATE_INTERVAL after it
\* moved the player by MOVEMENT_SPEED * UPDATE_INTERVAL
C14_Witness ==
    /\ obs.kind = "frame"
    /\ obs.rendered
    /\ clock = 1600 + UPDATE_INTERVAL
    /\ hist.frames = 2
    /\ ge.localPlayer # Null
    /\ ge.localPlayer.position.z = -(MOVEMENT_SPEED * UPDATE_INTERVAL)

\* C15: a frame callback that runs after dispose() changes nothing of the engine
\* or the scene, runs no pass of the render synchronizer, calls no reducer, does
\* not render and leaves no frame scheduled.
C15_NoFrameAfterDispose ==
    [][ ( obs'.kind = "frame" /\ ge.isDisposed )
          => /\ ge' = ge
             /\ sm' = sm
             /\ im' = im
             /\ obs'.passes = 0
             /\ obs'.calls = <<>>
             /\ ~obs'.rendered
             /\ ~ge.animationFrameId' ]_vars

\* a frame callback ran after the disposal of an engine that had a session, a
\* pressed key and mouse movement waiting to be applied
C15_Witness ==
    /\ obs.kind = "frame"
    /\ ge.isDisposed
    /\ im.pendingMouseMovement.deltaX # 0
    /\ clock > 0
    /\ net[1].status # "unused"

\* C16: once disconnect() or dispose() has run, no event listener is registered
\* any more (the InputManager's key, mouse, click and pointer-lock listeners, the
\* debug key listener, the resize listener) and no row callback is registered on
\* any connection.
C16_EverythingDeregistered ==
    [][ obs'.kind \in {"disconnect", "dispose"}
          => /\ ~im.listening'
             /\ ~ge.debugKeyListening'
             /\ ~sm.resizeListening'
             /\ \A c \in ConnIds : net[c].reg' = {} ]_vars

----------------------------------------------------------------------------
(* Properties of a failed subscription *)

\* C17: when a subscription reports an error the engine disconnects at once: it
\* holds no connection, no row callback is registered any more, the snapshot has
\* no local player and no remote player; and a frame of an engine without a
\* connection calls no reducer.
C17_SubscriptionErrorDisconnects ==
    [][ /\ obs'.kind = "error"
              => /\ ge.connection' = 0
                 /\ ge.dbCallbacks' = 0
                 /\ \A c \in ConnIds : net[c].reg' = {}
                 /\ ge.localPlayer' = Null
                 /\ ge.players' = EmptyMap
        /\ ( obs'.kind = "frame" /\ ge.connection = 0 ) => obs'.calls = <<>> ]_vars

\* C18: when a subscription has failed the App's connection state is cleared, so
\* that the connect dialog is shown again.
C18_FailureShowsConnectDialog ==
    [][ obs'.kind = "error" => app.connection' = 0 ]_vars

----------------------------------------------------------------------------
(* Properties of the local player's simulation *)

\* no direction key is held and the player stands
IdlePlayer(p) ==
    /\ \A key \in Keys : ~p.input[key]
    /\ ~p.isMoving
    /\ p.currentAnimationName = "idle"

\* a change of pitch the clamp takes away entirely
ClampedAway(p, deltaY) ==
    \/ deltaY = 0
    \/ p.pitch = PITCH_LIMIT_HIGH /\ deltaY > 0
    \/ p.pitch = PITCH_LIMIT_LOW /\ deltaY < 0

\* the frame has nothing to apply: no mouse movement that turns or tilts the
\* player, and, where the client simulates, an idle player
NoOpFrame ==
    /\ ge.localPlayer # Null
    /\ \/ ~im.isPointerLocked
       \/ /\ im.pendingMouseMovement.deltaX = 0
          /\ ClampedAway(ge.localPlayer, im.pendingMouseMovement.deltaY)
    /\ design = "position" => IdlePlayer(ge.localPlayer)

\* C19: updatePlayerRotation with no turn and a tilt that is zero or clamped away,
\* and calculateNextPlayerState on an idle player with no direction key held,
\* return the object they were given; a frame in which nothing else applies
\* assigns no new snapshot and leaves the local player as it was.
C19_NoOpStepKeepsReference ==
    [][ /\ ge.localPlayer' # Null
              => /\ \A deltaY \in TiltSteps \cup {0} :
                        ClampedAway(ge.localPlayer', deltaY)
                        => updatePlayerRotation(ge.localPlayer', 0, deltaY) = ge.localPlayer'
                 /\ IdlePlayer(ge.localPlayer')
                        => \A deltaTime \in LoopFrameLengths :
                              calculateNextPlayerState(ge.localPlayer', deltaTime)
                                  = ge.localPlayer'
        /\ ( obs'.kind = "frame" /\ NoOpFrame )
              => /\ obs'.states = 0
                 /\ ge.localPlayer' = ge.localPlayer ]_vars

\* a frame gave the input handler a rotation update of an idle player looking
\* straight up, the clamp took it away, and no snapshot was assigned
C19_Witness ==
    /\ obs.kind = "frame"
    /\ obs.rendered
    /\ obs.rotated
    /\ obs.states = 0
    /\ ge.localPlayer # Null
    /\ ge.localPlayer.pitch = PITCH_LIMIT_HIGH
    /\ IdlePlayer(ge.localPlayer)

(* Rotation: one session of a player who stands, the mouse swept far to    *)
(* both sides and tilted past both pitch limits between the frames.        *)

SweepSteps == {-1000, 1000}

NextRotation ==
    \/ Connect(1, 10, 0)
    \/ \E locked \in BOOLEAN : PointerLockChange(locked)
    \/ \E deltaX \in SweepSteps : MouseSweep(deltaX, 0)
    \/ \E deltaY \in TiltSteps : MouseSweep(0, deltaY)
    \/ GameLoop(UPDATE_INTERVAL, {})

SpecRotation == Init /\ [][NextRotation]_vars

\* C20: the local player's pitch is always within [PITCH_LIMIT_LOW,
\* PITCH_LIMIT_HIGH], a range strictly inside [0, PI]; a rotation update turns
\* the yaw by -deltaX * MOUSE_SENSITIVITY, whatever the yaw becomes, and moves the
\* pitch by deltaY * MOUSE_SENSITIVITY up to the nearer limit.
C20_PitchClampedYawFree ==
    [][ /\ 0 < PITCH_LIMIT_LOW /\ PITCH_LIMIT_LOW < PITCH_LIMIT_HIGH /\ PITCH_LIMIT_HIGH < PI
        /\ ge.localPlayer' # Null
              => /\ ge.localPlayer.pitch' >= PITCH_LIMIT_LOW
                 /\ ge.localPlayer.pitch' <= PITCH_LIMIT_HIGH
        /\ ( obs'.kind = "frame" /\ obs'.rotated /\ ge.localPlayer # Null )
              => /\ ge.localPlayer.rotationY' = ge.localPlayer.rotationY
                         - im.pendingMouseMovement.deltaX * MOUSE_SENSITIVITY
                 /\ ge.localPlayer.pitch' =
                         Max(PITCH_LIMIT_LOW,
                             Min(PITCH_LIMIT_HIGH,
                                 ge.localPlayer.pitch
                                     + im.pendingMouseMovement.deltaY * MOUSE_SENSITIVITY)) ]_vars

\* a frame turned the player past PI and stopped the pitch at a limit
C20_Witness ==
    /\ obs.kind = "frame"
    /\ obs.rotated
    /\ ge.localPlayer # Null
    /\ Abs(ge.localPlayer.rotationY) > PI
    /\ ge.localPlayer.pitch \in {PITCH_LIMIT_LOW, PITCH_LIMIT_HIGH}

----------------------------------------------------------------------------
(* Properties of the client's own simulation (the position-reporting       *)
(* engine)                                                                 *)

InitPosition == Init /\ design = "position"

(* Walking: one session, the four direction keys pressed and released in   *)
(* any combination, the yaw left at 0, frames of two lengths.              *)

WalkFrameLengths == {60, UPDATE_INTERVAL}

NextWalk ==
    \/ Connect(1, 10, 0)
    \/ \E key \in Keys : KeyDown(key)
    \/ \E key \in Keys : KeyUp(key)
    \/ \E deltaTime \in WalkFrameLengths : GameLoop(deltaTime, {})

SpecWalk == InitPosition /\ [][NextWalk]_vars

\* a simulation step has just run for the local player
Simulated ==
    /\ obs.kind = "frame"
    /\ obs.rendered
    /\ design = "position"
    /\ ge.localPlayer # Null

\* C21 as stated: after every simulation step the local player's animation state
\* is idle if and only if none of the four direction keys is held.
C21_IdleIffNoKeyHeld ==
    Simulated => ( LocalAnimationState(ge.localPlayer) = "idle"
                     <=> \A key \in Keys : ~ge.localPlayer.input[key] )

\* C21: after every simulation step the local player's animation state is idle if
\* and only if the held direction keys have no resultant: none is held, or the
\* held ones cancel (forward with backward, left with right).
C21_IdleIffNoResultant ==
    Simulated => ( LocalAnimationState(ge.localPlayer) = "idle"
                     <=> /\ ge.localPlayer.input.forward = ge.localPlayer.input.backward
                         /\ ge.localPlayer.input.left = ge.localPlayer.input.right )

\* a simulation step ran with forward and backward both held: the player is idle
C21_Witness ==
    /\ Simulated
    /\ ge.localPlayer.input.forward
    /\ ge.localPlayer.input.backward
    /\ ~ge.localPlayer.input.left
    /\ ~ge.localPlayer.input.right
    /\ LocalAnimationState(ge.localPlayer) = "idle"

\* C22: the local player's animation state is walking-forwards in every state in
\* which only the forward key is held, and idle in every state in which no
\* direction key is held, from the key event on.
C22_AnimationFollowsKeysAtOnce ==
    ( design = "position" /\ ge.localPlayer # Null )
        => /\ ( /\ ge.localPlayer.input.forward
                /\ \A key \in Keys \ {"forward"} : ~ge.localPlayer.input[key] )
                 => LocalAnimationState(ge.localPlayer) = "walkingForwards"
           /\ ( \A key \in Keys : ~ge.localPlayer.input[key] )
                 => LocalAnimationState(ge.localPlayer) = "idle"

(* A stride: the session begins and W goes down before the first frame, at *)
(* time 0, and stays down; the yaw stays 0; frames of a sixth, a third, a  *)
(* half and two thirds of a second follow.                                 *)

OneSecond == 3000

StrideLengths == {500, 1000, 1500, 2000}

NextStride ==
    \/ hist.frames = 0 /\ Connect(1, 10, 0)
    \/ hist.frames = 0 /\ KeyDown("forward")
    \/ \E deltaTime \in StrideLengths : GameLoop(deltaTime, {})

SpecStride == InitPosition /\ [][NextStride]_vars

\* forward has been held since time 0
Striding ==
    /\ ge.localPlayer # Null
    /\ ge.localPlayer.input.forward

\* C23 as stated: with forward held from the origin, after frames that sum to one
\* second the player stands on the forward axis at distance MOVEMENT_SPEED * 1 s,
\* however the second was split into frames.
C23_OneSecondOneStride ==
    ( Striding /\ obs.kind = "frame" /\ clock = OneSecond )
        => ge.localPlayer.position = [x |-> 0, y |-> 0, z |-> -(MOVEMENT_SPEED * OneSecond)]

\* C23: with forward held from the origin, as long as no frame was longer than half
\* a second the player stands on the forward axis at distance MOVEMENT_SPEED times
\* the elapsed time, however that time was split into frames.
C23_StrideIsLinearInTime ==
    ( Striding /\ hist.discards = 0 )
        => ge.localPlayer.position = [x |-> 0, y |-> 0, z |-> -(MOVEMENT_SPEED * clock)]

\* three frames of different lengths have summed to one second
C23_Witness ==
    /\ Striding
    /\ obs.kind = "frame"
    /\ hist.frames = 3
    /\ hist.discards = 0
    /\ clock = OneSecond
    /\ ge.lastTimestamp = OneSecond
    /\ ge.localPlayer.position.z = -(MOVEMENT_SPEED * OneSecond)

\* the square of the distance between two positions on the ground
DistanceSq(p, q) == (p.x - q.x) * (p.x - q.x) + (p.z - q.z) * (p.z - q.z)

\* C24: a simulation step with a held-direction combination that has a resultant
\* moves the player by MOVEMENT_SPEED * deltaTime, to the rounding of the positions
\* (one unit of 1e-3), whether one direction is held or two orthogonal ones.
C24_StepLengthIsSpeedTimesDelta ==
    [][ ( /\ obs'.kind = "frame" /\ obs'.rendered
          /\ ge.localPlayer # Null /\ ge.localPlayer' # Null
          /\ \/ ge.localPlayer.input.forward # ge.localPlayer.input.backward
             \/ ge.localPlayer.input.left # ge.localPlayer.input.right )
        => LET d == MOVEMENT_SPEED * (clock' - clock)
               moved == DistanceSq(ge.localPlayer.position', ge.localPlayer.position)
           IN  /\ (d - 1) * (d - 1) <= moved
               /\ moved <= (d + 1) * (d + 1) ]_vars

\* the first frame moved the player diagonally, forward and to the right
C24_Witness ==
    /\ Simulated
    /\ hist.frames = 1
    /\ ge.localPlayer.input.forward /\ ge.localPlayer.input.right
    /\ ~ge.localPlayer.input.backward /\ ~ge.localPlayer.input.left
    /\ ge.localPlayer.position.x > 0
    /\ ge.localPlayer.position.z < 0
    /\ ge.localPlayer.position.x = -ge.localPlayer.position.z

----------------------------------------------------------------------------
(* Properties of the InputManager *)

\* C25: a key event that does not change whether its direction is held (a repeated
\* keydown of a held key, a keyup of a key that is not held) makes the InputManager
\* call its callback with no key update.
C25_KeyEventOnlyOnTransition ==
    [][ ( /\ obs'.kind = "key"
          /\ ge.localPlayer # Null /\ ge.localPlayer' # Null
          /\ ge.localPlayer.input' = ge.localPlayer.input )
        => obs'.emitted = 0 ]_vars

NoMovement == [deltaX |-> 0, deltaY |-> 0]

\* C26: the accumulator always holds the sum of the mouse movement received under
\* pointer lock since the last rotation update (or lock change); a frame gives the
\* callback at most one rotation update, it gives one whenever it runs with the
\* pointer locked and movement accumulated, the update turns the player by that
\* sum, and the accumulator is zero afterwards.
C26_MouseMovementCoalesced ==
    [][ /\ im.pendingMouseMovement' = hist.moved'
        /\ obs'.kind = "frame" =>
              /\ obs'.emitted <= 1
              /\ obs'.rotated <=> obs'.emitted = 1
              /\ ( obs'.rendered /\ im.isPointerLocked /\ hist.moved # NoMovement )
                    => obs'.rotated
              /\ obs'.rotated
                    => /\ im.isPointerLocked
                       /\ hist.moved # NoMovement
                       /\ im.pendingMouseMovement' = NoMovement
                       /\ ge.localPlayer # Null
                             => /\ ge.localPlayer.rotationY' = ge.localPlayer.rotationY
                                       - hist.moved.deltaX * MOUSE_SENSITIVITY
                                /\ ge.localPlayer.pitch' =
                                       Max(PITCH_LIMIT_LOW,
                                           Min(PITCH_LIMIT_HIGH,
                                               ge.localPlayer.pitch
                                                 + hist.moved.deltaY * MOUSE_SENSITIVITY))
              /\ ~obs'.rotated
                    => /\ im.pendingMouseMovement' = im.pendingMouseMovement
                       /\ ge.localPlayer # Null
                             => /\ ge.localPlayer' # Null
                                /\ ge.localPlayer.rotationY' = ge.localPlayer.rotationY
                                /\ ge.localPlayer.pitch' = ge.localPlayer.pitch ]_vars

\* the first frame turned and tilted the player by the movement of two mouse events
C26_Witness ==
    /\ obs.kind = "frame"
    /\ obs.rotated
    /\ obs.emitted = 1
    /\ hist.frames = 1
    /\ ge.localPlayer # Null
    /\ ge.localPlayer.rotationY # 0
    /\ ge.localPlayer.pitch # HALF_PI
    /\ im.pendingMouseMovement = NoMovement

\* C27: a pointer-lock change makes the InputManager call its callback once, with
\* the new lock state, and leaves no pending mouse movement; pending movement
\* exists only under pointer lock, so none from before a change is applied after it.
C27_LockChangeResetsPendingMovement ==
    [][ /\ obs'.kind = "pointerlock"
              => /\ obs'.emitted = 1
                 /\ im.pendingMouseMovement' = NoMovement
                 /\ ge.localPlayer' # Null
                       => ge.localPlayer.input.isPointerLocked' = im.isPointerLocked'
        /\ im.pendingMouseMovement' # NoMovement => im.isPointerLocked' ]_vars

\* a lock change threw away mouse movement that was waiting for the next frame
C27_Witness ==
    /\ obs.kind = "pointerlock"
    /\ obs.dropped
    /\ obs.emitted = 1
    /\ ~im.isPointerLocked
    /\ im.pendingMouseMovement = NoMovement

----------------------------------------------------------------------------
(* Properties of the render components *)

\* C29 as stated: there is exactly one local render component at any time.
C29_ExactlyOneLocalComponent ==
    /\ Component("local") # Null
    /\ sm.sceneLocalModels = 1

\* C29: there is never more than one local render component, and the scene holds
\* the model of that one only; after a synchronization pass there is one if the
\* snapshot has a local player and the character assets are loaded, and none
\* otherwise.
C29_AtMostOneLocalComponent ==
    /\ sm.sceneLocalModels = IF Component("local") # Null THEN 1 ELSE 0
    /\ obs.passes > 0
          => ( Component("local") # Null
                 <=> ge.localPlayer # Null /\ areRenderAssetsReady(sm) )

\* passes have run with the local component in place, next to two remote ones
C29_Witness ==
    /\ obs.passes > 0
    /\ obs.kind = "update"
    /\ Component("local") # Null
    /\ sm.sceneLocalModels = 1
    /\ Cardinality(DOMAIN sm.playerRenderComponents) = 2

\* C28: a synchronization pass over a snapshot of remote players that has not
\* changed since the pass before changes no remote component's position,
\* rotation, current animation or playback rate, and starts no crossfade.
C28_UnchangedSnapshotChangesNothing ==
    [][ ( obs'.passes > 0 /\ ge.players' = ge.players )
        => \A k \in HexIds :
              ( Component(k) # Null /\ Component(k)' # Null )
              => /\ Component(k)'.position = Component(k).position
                 /\ Component(k)'.rotationY = Component(k).rotationY
                 /\ Component(k)'.currentAnimation = Component(k).currentAnimation
                 /\ Component(k)'.timeScale = Component(k).timeScale
                 /\ obs'.xf[k] = 0 ]_vars

----------------------------------------------------------------------------
(* Authority over the animation state: the "input" engine in one session,   *)
(* the backend changes the animation state of the local player's row at any *)
(* moment, the movement key W, the pointer lock, the mouse, frames.         *)

InitInput == Init /\ design = "input"

NextAuthority ==
    \/ Connect(1, 10, 0)
    \/ DeliverApplied(1)
    \/ DeliverRow(1)
    \/ ServerInsert(10, DefaultPayload)
    \/ \E p \in AnimationPayloads : ServerUpdate(10, p)
    \/ KeyDown("forward")
    \/ KeyUp("forward")
    \/ \E locked \in BOOLEAN : PointerLockChange(locked)
    \/ \E deltaX \in MouseSteps : MouseMove(deltaX, 0)
    \/ GameLoop(UPDATE_INTERVAL, {})

SpecAuthority == InitInput /\ [][NextAuthority]_vars

\* C30: in the "input" engine the animation state of the local player changes
\* only in the handler of a backend update event for the local identity, which
\* sets it to the value of the row; a key, pointer-lock or mouse event and a
\* frame leave it as it is.
C30_AnimationStateFromBackendOnly ==
    [][ ( ge.localPlayer # Null /\ ge.localPlayer' # Null )
        => /\ ge.localPlayer'.animationState # ge.localPlayer.animationState
                => /\ obs'.kind = "update"
                   /\ obs'.id = ge.localPlayer.identity
                   /\ ge.localPlayer'.animationState =
                          net'[1].cache[10].animationState
           /\ obs'.kind \in {"key", "pointerlock", "none", "frame"}
                => ge.localPlayer'.animationState = ge.localPlayer.animationState
       ]_vars

\* W is held and the frames have run, yet the player stands idle until the
\* backend says otherwise; then its update event made the player walk
C30_Witness ==
    /\ obs.kind = "update"
    /\ obs.id = "0a"
    /\ ge.localPlayer # Null
    /\ ge.localPlayer.input.forward
    /\ ge.localPlayer.animationState = "walkingForwards"
    /\ hist.frames > 0

----------------------------------------------------------------------------
(* Heading: one session of the "position" engine, the four direction keys, *)
(* the mouse turns the player a little to either side, frames of a         *)
(* millisecond (a step too short to classify) and of UPDATE_INTERVAL, two  *)
(* of them.                                                                *)

HeadingFrameLengths == {3, UPDATE_INTERVAL}

HeadingSteps == {-6, 6}

NextHeading ==
    \/ hist.frames = 0 /\ Connect(1, 10, 0)
    \/ \E key \in Keys : KeyDown(key)
    \/ \E key \in Keys : KeyUp(key)
    \/ hist.frames = 0 /\ PointerLockChange(TRUE)
    \/ \E deltaX \in HeadingSteps : hist.frames = 0 /\ MouseMove(deltaX, 0)
    \/ \E deltaTime \in HeadingFrameLengths : hist.frames < 2 /\ GameLoop(deltaTime, {})

SpecHeading == InitPosition /\ [][NextHeading]_vars

\* C31: after a simulation step, a player who strafes only, walks forward or
\* walks forward on a diagonal is classified as walking forwards; a player is
\* classified as walking backwards only if backward is held without forward, and
\* is so classified whenever the step is long enough to classify (longer than
\* 0.00316 units); a player who does not move is never moving backwards.
C31_BackwardsBeyondThresholdOnly ==
    [][ Simulated'
        => LET player == ge.localPlayer'
               move   == MoveDirection(player.input)
               step   == MOVEMENT_SPEED * (clock' - clock)
           IN  /\ ( move.a >= 0 /\ IsMoving(player.input) )
                     => LocalAnimationState(player) = "walkingForwards"
               /\ player.isMovingBackwards => move.a < 0
               /\ ( move.a < 0 /\ step * step > 10 )
                     => LocalAnimationState(player) = "walkingBackwards"
               /\ ~player.isMoving => ~player.isMovingBackwards ]_vars

\* turned to the side, the player strafes: the rounded step has a small component
\* against the forward vector, and the player is classified as walking forwards
C31_Witness ==
    /\ Simulated
    /\ ge.localPlayer.rotationY # 0
    /\ ge.localPlayer.input.left
    /\ ~ge.localPlayer.input.right
    /\ ge.localPlayer.input.forward = ge.localPlayer.input.backward
    /\ ge.localPlayer.isMoving
    /\ LocalAnimationState(ge.localPlayer) = "walkingForwards"
    /\ hist.frames > 1

----------------------------------------------------------------------------
(* Properties of the sessions *)

\* the step delivers the subscription-applied notification of connection c
AppliedDelivered(c) ==
    /\ obs'.kind = "applied"
    /\ net[c].wire # <<>>
    /\ Head(net[c].wire).type = "applied"
    /\ net'[c].wire = Tail(net[c].wire)

\* C32: a subscription-applied notification that arrives when the connection
\* has been cleared, or when the local player is not the one its subscription
\* was created for, changes neither the snapshot nor the registered row handlers.
C32_LateAppliedChangesNothing ==
    [][ \A c \in ConnIds :
          ( /\ AppliedDelivered(c)
            /\ \/ ge.connection = 0
               \/ ge.localPlayer = Null
               \/ ge.localPlayer.identity # net[c].ident )
          => /\ ge.players' = ge.players
             /\ ge.localPlayer' = ge.localPlayer
             /\ ge.dbCallbacks' = ge.dbCallbacks
             /\ \A k \in ConnIds : net'[k].reg = net[k].reg
             /\ obs'.folds = <<>>
             /\ obs'.passes = 0 ]_vars

\* the notification of a subscription arrived after disconnect() had cleared the
\* connection, the backend holding two rows: nothing was folded, the snapshot is
\* empty and no handler is registered
C32_Witness ==
    /\ obs.kind = "applied"
    /\ obs.folds = <<>>
    /\ ge.connection = 0
    /\ ge.localPlayer = Null
    /\ ge.players = EmptyMap
    /\ Cardinality(DOMAIN dbRows) = 2
    /\ \A c \in ConnIds : net[c].reg = {}

\* the handler sets registered, each with the connection it is registered on
Registered == {<<c, k>> \in ConnIds \X ConnIds : k \in net[c].reg}

\* C33: at most one set of insert/update/delete handlers is registered at any
\* time, the registered set is the one recorded in dbCallbacks, on the engine's
\* connection (the set the next disconnect() removes), and no row event is
\* folded into the snapshot twice.
C33_OneHandlerSetRegistered ==
    /\ Cardinality(Registered) <= 1
    /\ \A r \in Registered : r[1] = ge.connection /\ r[2] = ge.dbCallbacks
    /\ obs.kind \in {"insert", "update", "delete"} => Len(obs.folds) <= 1

----------------------------------------------------------------------------
(* Properties of the animation actions *)

\* C34: for every render component, local or remote, the action that is faded
\* in is the one its currentAnimation names and the other one is faded out, also
\* when the component was created for a player who walks already; after a
\* synchronization pass the walk action's playback rate is -1 if the player's
\* state is walkingBackwards and 1 otherwise.
C34_FadedInIsCurrentAnimation ==
    \A k \in CompKeys :
        Component(k) # Null
        => /\ Component(k).actions[Component(k).currentAnimation] = "in"
           /\ \A name \in {"idle", "walk"} \ {Component(k).currentAnimation} :
                 Component(k).actions[name] = "out"
           /\ ( obs.passes > 0 /\ InSnapshot(k) )
                 => Component(k).timeScale =
                        IF Carried(k) = "walkingBackwards" THEN -1 ELSE 1

----------------------------------------------------------------------------
(* Properties of the report cadence *)

\* what the engine last transmitted of the value CurrentReport names
LastReported(g) == IF design = "position" THEN g.lastSentPosition ELSE g.lastSentInput

\* the step is a frame of a connected engine that comes UPDATE_INTERVAL or more
\* after the last report
FrameAfterCadence ==
    /\ obs'.kind = "frame"
    /\ ~ge.isDisposed
    /\ ge.connection # 0
    /\ ge.localPlayer # Null
    /\ clock' - ge.lastUpdateTime >= UPDATE_INTERVAL

\* C35 as stated: after every frame that comes UPDATE_INTERVAL or more after
\* the last report, the calls succeeding, the last transmitted value is within
\* the thresholds of the current value.
C35_ReportedByFirstFrameAfterCadence ==
    [][ FrameAfterCadence
        => ~Differs(CurrentReport(ge'.localPlayer), LastReported(ge')) ]_vars

\* C35: after every frame that comes UPDATE_INTERVAL or more after the last
\* report and that the loop does not discard, the calls succeeding, the last
\* transmitted value is within the thresholds of the current value (equal to it
\* for the input vector); a discarded frame reports nothing.
C35_ReportedByFirstFrameThatRuns ==
    [][ FrameAfterCadence
        => IF obs'.rendered
           THEN ~Differs(CurrentReport(ge'.localPlayer), LastReported(ge'))
           ELSE /\ obs'.calls = <<>>
                /\ LastReported(ge') = LastReported(ge) ]_vars

\* W went down, the loop discarded a frame, and the next frame reported the
\* input that had been standing since
C35_Witness ==
    /\ design = "input"
    /\ obs.kind = "frame"
    /\ obs.rendered
    /\ hist.discards > 0
    /\ Len(obs.calls) = 1
    /\ obs.calls[1].ok
    /\ ge.localPlayer # Null
    /\ ge.lastSentInput.input.forward
    /\ ge.lastUpdateTime = clock

----------------------------------------------------------------------------
(* Properties of connect() *)

\* C36: connect() leaves a fresh state whatever came before: the local player
\* stands at the origin with yaw 0 and pitch pi/2, holds no input and is idle,
\* there is no remote player, no handler of an earlier session is registered,
\* the initial state has been reported exactly once, and the record of the last
\* report and the cadence timer are those of that report.
C36_ConnectStartsAfresh ==
    [][ obs'.kind = "connect"
        => /\ ge'.localPlayer # Null
           /\ ge'.localPlayer.position = Origin
           /\ ge'.localPlayer.rotationY = 0
           /\ ge'.localPlayer.pitch = HALF_PI
           /\ ge'.localPlayer.input = initialInputState
           /\ LocalAnimationState(ge'.localPlayer) = "idle"
           /\ ge'.players = EmptyMap
           /\ \A c \in ConnIds : net'[c].reg = {}
           /\ Len(obs'.calls) = Cardinality(Reducers)
           /\ \A n \in 1..Len(obs'.calls) : obs'.calls[n].ok
           /\ LastReported(ge') = CurrentReport(ge'.localPlayer)
           /\ design = "position" => ge'.lastSentAnimationState = "idle"
           /\ ge'.lastUpdateTime = clock' ]_vars

----------------------------------------------------------------------------
(* Properties of the orientation *)

\* C37: the yaw and the pitch of a session's local player change only in a frame
\* that emits a rotation event, and a rotation event is emitted only while the
\* pointer is locked; a mouse movement received while the pointer is not locked
\* changes neither the orientation nor the pending movement, and the pending
\* movement is zero in every state in which the pointer is not locked.
C37_OrientationFromLockedMouseOnly ==
    [][ /\ ( /\ ge.localPlayer # Null
              /\ ge'.localPlayer # Null
              /\ \/ ge'.localPlayer.rotationY # ge.localPlayer.rotationY
                 \/ ge'.localPlayer.pitch # ge.localPlayer.pitch )
            => obs'.kind = "frame" /\ obs'.rotated
        /\ obs'.rotated => im.isPointerLocked
        /\ ( ~im.isPointerLocked /\ obs'.kind \notin {"pointerlock", "connect"} )
            => /\ im'.pendingMouseMovement = NoMovement
               /\ ge'.localPlayer # Null /\ ge.localPlayer # Null
                    => /\ ge'.localPlayer.rotationY = ge.localPlayer.rotationY
                       /\ ge'.localPlayer.pitch = ge.localPlayer.pitch
        /\ ~im.isPointerLocked => im.pendingMouseMovement = NoMovement
        /\ ~im'.isPointerLocked => im'.pendingMouseMovement = NoMovement ]_vars

\* the mouse turned the player under pointer lock; then the lock was released
\* with movement pending, which was thrown away
C37_Witness ==
    /\ obs.kind = "pointerlock"
    /\ obs.dropped
    /\ ~im.isPointerLocked
    /\ im.pendingMouseMovement = NoMovement
    /\ ge.localPlayer # Null
    /\ ge.localPlayer.rotationY # 0
    /\ ge.localPlayer.pitch # HALF_PI

----------------------------------------------------------------------------
(* Debug mode: the "input" engine, the keys P, [ and ], collision meshes   *)
(* that are set and replaced by lists of any length up to MaxMeshes,       *)
(* frames.                                                                  *)

MaxMeshes == 3

DebugKeys == {"p", "[", "]"}

\* a keydown event reaches the engine's debug key listener
DebugKey(key) ==
    /\ ge.debugKeyListening
    /\ Publish(handleDebugToggleKey(World("debugkey", key), key))
    /\ UNCHANGED <<design, app, im, dbRows, clock>>

\* the engine gives the scene the collision meshes of the backend (line 1155)
SetCollisionMeshes(count) ==
    /\ ~sm.isDisposed
    /\ Publish([World("meshes", "") EXCEPT !.sm = setCollisionMeshes(sm, count)])
    /\ UNCHANGED <<design, app, im, dbRows, clock>>

NextDebug ==
    \/ \E key \in DebugKeys : DebugKey(key)
    \/ \E count \in 0..MaxMeshes : SetCollisionMeshes(count)
    \/ GameLoop(UPDATE_INTERVAL, {})

SpecDebug == InitInput /\ [][NextDebug]_vars

\* C38: currentCollisionMeshIndex is null or an index into the current list of
\* collision meshes, whatever the list's length, so the debug overlay never
\* reads a mesh that does not exist; from the mesh of index i, next shows
\* i + 1 and previous i - 1, wrapping around at the ends of the list.
C38_MeshIndexStaysValid ==
    [][ /\ sm'.currentCollisionMeshIndex # {}
            => The(sm'.currentCollisionMeshIndex) \in 0..(MeshCount(sm') - 1)
        /\ ~obs'.threw
        /\ ( /\ obs'.kind = "debugkey"
              /\ sm.currentCollisionMeshIndex # {}
              /\ The(sm.currentCollisionMeshIndex) \in 0..(MeshCount(sm) - 1) )
            => /\ obs'.id = "["
                    => The(sm'.currentCollisionMeshIndex)
                           = (The(sm.currentCollisionMeshIndex) + 1) % MeshCount(sm)
               /\ obs'.id = "]"
                    => The(sm'.currentCollisionMeshIndex)
                           = (The(sm.currentCollisionMeshIndex) + MeshCount(sm) - 1)
                                 % MeshCount(sm) ]_vars

====
